---- MODULE Spec2Model ----
(***************************************************************************)
(* A model of the compaction gateway slice of sub2api:                     *)
(*   - the compaction codec (encryptCompactionSummary,                     *)
(*     decryptCompactionSummary, compactionKey, parse32ByteKey),           *)
(*   - expandCompactionIntoInstructions,                                   *)
(*   - SetOpsStreamFault,                                                  *)
(*   - forwardForCompactJSON (the upstream invoker),                       *)
(*   - upstreamReadTracker.Read,                                           *)
(*   - Compact,                                                            *)
(*   - OpsService.RecordRequestDump,                                       *)
(*   - SetOpsStreamFault called by two goroutines,                         *)
(*   - Compact retried over accounts after an UpstreamFailoverError,       *)
(*   - upstreamReadTracker.Read step by step beside a watchdog.            *)
(*                                                                         *)
(* Go strings and byte slices are sequences of byte values 0..255.         *)
(***************************************************************************)
EXTENDS Integers, Sequences, FiniteSets, TLC

VARIABLES
    \* ---- process configuration read by compactionKey
    envKey,      \* os.Getenv("SUB2API_COMPACTION_KEY")
    cfgTotp,     \* s.cfg.Totp.EncryptionKey
    cfgJwt,      \* s.cfg.JWT.Secret
    now,         \* the wall clock read by time.Now()
    \* ---- one encrypt / decrypt exchange of the codec
    cStage,      \* "idle" | "encrypted" | "decrypted"
    cSummary,    \* the summary handed to encryptCompactionSummary
    cToken,      \* the token in flight (string)
    cEncErr,     \* error of encryptCompactionSummary ("none" when nil)
    cEncKey,     \* key the token was sealed under (<<>> when none)
    cEncCfg,     \* <<envKey, cfgTotp, cfgJwt>> at encryption time
    cTampered,   \* whether one byte of the token was changed in flight
    cDecOut,     \* string returned by decryptCompactionSummary
    cDecErr,     \* error of decryptCompactionSummary ("none" when nil)
    cDecKey,     \* key decryptCompactionSummary derived (<<>> when none)
    \* ---- expandCompactionIntoInstructions on one request body
    xBody,       \* reqBody: [input, instructions]
    xOrig,       \* reqBody before the first call
    xPrev,       \* reqBody before the latest call
    xCalls,      \* number of calls made on xBody
    xChanged,    \* "changed" result of the latest call
    xErr,        \* error of the latest call ("none" when nil)
    xFirst,      \* outcome of the first call: "pending" | "changed" | "unchanged" | "error"
    \* ---- SetOpsStreamFault on one gin.Context
    ctxFault,    \* value stored under OpsStreamFaultKey (NoFault when unset)
    firstFault,  \* argument of the first call with a non-nil context
    faultCalls,  \* number of calls made
    lastCtxNil,  \* whether the latest call passed c == nil
    lastFault,   \* argument of the latest call
    \* ---- forwardForCompactJSON
    fStage,      \* "ready" | "done"
    fIn,         \* the inputs of the call
    fOut,        \* everything the call returned and did
    \* ---- upstreamReadTracker over one wrapped reader
    trk,         \* the tracker: [hasLast, hasBytes, lastReadAt, bytesRead]
    tClock,      \* time.Now().UnixNano()
    tLog,        \* per Read: what t.r.Read returned and what Read returned
    \* ---- Compact
    kStage,      \* "ready" | "done"
    kIn,         \* the inputs of the call
    kOut,        \* everything the call returned and did
    \* ---- RecordRequestDump
    dStage,      \* "ready" | "done"
    dIn,         \* the input and the service's collaborators
    dOut,        \* what the call returned and did
    \* ---- two goroutines in SetOpsStreamFault on one gin.Context
    rCtx,        \* value stored under OpsStreamFaultKey
    rPc,         \* per goroutine: "check" | "store" | "done"
    rArg,        \* per goroutine: the fault it reports
    rWrites,     \* the goroutines that executed c.Set, in order
    \* ---- one request retried over accounts while Compact fails over
    yLog,        \* per attempt: the kind of error returned and the writes made
    yWrites,     \* everything written to the client response so far
    \* ---- a Read through the tracker step by step, with a watchdog
    wPc,         \* the reading task: "idle" | "store" | "add" | "return"
    wPending,    \* what t.r.Read returned to the Read in progress
    wInner,      \* bytes the wrapped reader has returned so far
    wSeen        \* the watchdog's loads of the cells, in order

codecVars == <<cStage, cSummary, cToken, cEncErr, cEncKey, cEncCfg, cTampered,
               cDecOut, cDecErr, cDecKey>>
cfgVars == <<envKey, cfgTotp, cfgJwt, now>>
expandVars == <<xBody, xOrig, xPrev, xCalls, xChanged, xErr, xFirst>>
faultVars == <<ctxFault, firstFault, faultCalls, lastCtxNil, lastFault>>
fwdVars == <<fStage, fIn, fOut>>
trackVars == <<trk, tClock, tLog>>
compactVars == <<kStage, kIn, kOut>>
dumpVars == <<dStage, dIn, dOut>>
raceVars == <<rCtx, rPc, rArg, rWrites>>
retryVars == <<yLog, yWrites>>
watchVars == <<wPc, wPending, wInner, wSeen>>
lateVars == <<retryVars, watchVars>>
restVars == <<trackVars, compactVars, dumpVars, raceVars, lateVars>>
vars == <<cfgVars, codecVars, expandVars, faultVars, fwdVars, restVars>>

----------------------------------------------------------------------------
(* Text helpers: the Go standard library functions the code calls.          *)

Rep(n, c) == [i \in 1..n |-> c]

\* unicode.IsSpace restricted to the ASCII range: \t \n \v \f \r and space.
IsSpace(c) == c \in {9, 10, 11, 12, 13, 32}

RECURSIVE TrimLeft(_)
TrimLeft(s) ==
    IF s # <<>> /\ IsSpace(Head(s)) THEN TrimLeft(Tail(s)) ELSE s

RECURSIVE TrimRight(_)
TrimRight(s) ==
    IF s # <<>> /\ IsSpace(s[Len(s)]) THEN TrimRight(SubSeq(s, 1, Len(s) - 1)) ELSE s

\* strings.TrimSpace
TrimSpace(s) == TrimRight(TrimLeft(s))

\* strings.ToLower on ASCII letters
LowerByte(c) == IF c >= 65 /\ c <= 90 THEN c + 32 ELSE c
ToLower(s) == [i \in 1..Len(s) |-> LowerByte(s[i])]

RECURSIVE SumSeq(_)
SumSeq(s) == IF s = <<>> THEN 0 ELSE Head(s) + SumSeq(Tail(s))

RECURSIVE WeightedSum(_, _)
WeightedSum(s, k) ==
    IF s = <<>> THEN 0 ELSE k * Head(s) + WeightedSum(Tail(s), k + 1)

\* strings.Join(parts, sep)
RECURSIVE Join(_, _)
Join(parts, sep) ==
    IF parts = <<>> THEN <<>>
    ELSE IF Len(parts) = 1 THEN parts[1]
    ELSE parts[1] \o sep \o Join(Tail(parts), sep)

----------------------------------------------------------------------------
(* encoding/hex and encoding/base64 (StdEncoding: standard alphabet,        *)
(* padded).                                                                 *)

HexVal(c) ==
    IF c >= 48 /\ c <= 57 THEN c - 48
    ELSE IF c >= 97 /\ c <= 102 THEN c - 87
    ELSE IF c >= 65 /\ c <= 70 THEN c - 55
    ELSE -1

\* hex.DecodeString: [ok, bytes]
HexDecode(s) ==
    IF Len(s) % 2 # 0 \/ \E i \in 1..Len(s) : HexVal(s[i]) < 0
    THEN [ok |-> FALSE, bytes |-> <<>>]
    ELSE [ok |-> TRUE,
          bytes |-> [i \in 1..(Len(s) \div 2) |->
                        16 * HexVal(s[2 * i - 1]) + HexVal(s[2 * i])]]

B64Char(v) ==
    IF v < 26 THEN 65 + v
    ELSE IF v < 52 THEN 97 + (v - 26)
    ELSE IF v < 62 THEN 48 + (v - 52)
    ELSE IF v = 62 THEN 43
    ELSE 47

B64Val(c) ==
    IF c >= 65 /\ c <= 90 THEN c - 65
    ELSE IF c >= 97 /\ c <= 122 THEN c - 97 + 26
    ELSE IF c >= 48 /\ c <= 57 THEN c - 48 + 52
    ELSE IF c = 43 THEN 62
    ELSE IF c = 47 THEN 63
    ELSE -1

\* base64.StdEncoding.EncodeToString
RECURSIVE Base64Encode(_)
Base64Encode(b) ==
    IF b = <<>> THEN <<>>
    ELSE IF Len(b) = 1 THEN
        <<B64Char(b[1] \div 4), B64Char((b[1] % 4) * 16), 61, 61>>
    ELSE IF Len(b) = 2 THEN
        <<B64Char(b[1] \div 4),
          B64Char((b[1] % 4) * 16 + b[2] \div 16),
          B64Char((b[2] % 16) * 4), 61>>
    ELSE
        <<B64Char(b[1] \div 4),
          B64Char((b[1] % 4) * 16 + b[2] \div 16),
          B64Char((b[2] % 16) * 4 + b[3] \div 64),
          B64Char(b[3] % 64)>> \o Base64Encode(SubSeq(b, 4, Len(b)))

RECURSIVE DropNewlines(_)
DropNewlines(s) ==
    IF s = <<>> THEN <<>>
    ELSE IF Head(s) \in {10, 13} THEN DropNewlines(Tail(s))
    ELSE <<Head(s)>> \o DropNewlines(Tail(s))

\* The bytes of one 4-character group; pad is the number of trailing '='.
B64Group(q, pad) ==
    LET v1 == B64Val(q[1])
        v2 == B64Val(q[2])
        v3 == IF pad >= 2 THEN 0 ELSE B64Val(q[3])
        v4 == IF pad >= 1 THEN 0 ELSE B64Val(q[4])
        b1 == v1 * 4 + v2 \div 16
        b2 == (v2 % 16) * 16 + v3 \div 4
        b3 == (v3 % 4) * 64 + v4
    IN  IF pad = 2 THEN <<b1>> ELSE IF pad = 1 THEN <<b1, b2>> ELSE <<b1, b2, b3>>

RECURSIVE B64Groups(_)
B64Groups(s) ==
    IF s = <<>> THEN <<>>
    ELSE IF Len(s) = 4 THEN
        B64Group(s, IF s[3] = 61 THEN 2 ELSE IF s[4] = 61 THEN 1 ELSE 0)
    ELSE B64Group(SubSeq(s, 1, 4), 0) \o B64Groups(SubSeq(s, 5, Len(s)))

\* base64.StdEncoding.DecodeString: \r and \n are skipped, the length must be
\* a multiple of four and '=' may only pad the last group: [ok, bytes]
Base64Decode(str) ==
    LET s == DropNewlines(str)
        n == Len(s)
        padOK == \A i \in 1..n :
                    s[i] = 61 => /\ i >= n - 1
                                 /\ s[n] = 61
        charOK == \A i \in 1..n : s[i] = 61 \/ B64Val(s[i]) >= 0
    IN  IF n % 4 # 0 \/ ~padOK \/ ~charOK
        THEN [ok |-> FALSE, bytes |-> <<>>]
        ELSE [ok |-> TRUE, bytes |-> B64Groups(s)]

----------------------------------------------------------------------------
(* crypto: sha256.Sum256 and the AES-256-GCM AEAD of crypto/cipher.  The   *)
(* library primitives are replaced by checksums with the contract the code *)
(* relies on: Open returns the sealed plaintext for the same key and       *)
(* nonce, and rejects a token whose key, nonce or ciphertext differs.      *)

KeyBytes == 32
HexKeyLen == 64
NonceSize == 12

\* sha256.Sum256: a 32-byte digest of s
Sha256(s) ==
    [i \in 1..KeyBytes |->
        (WeightedSum(s, i) + 7 * Len(s) + 31 * i) % 256]

KeyMix1(key) == SumSeq(key) % 256
KeyMix2(key) == WeightedSum(key, 1) % 256

KeyStream(key, nonce, i) ==
    (KeyMix1(key) + nonce[((i - 1) % NonceSize) + 1] + i) % 256

\* the authentication tag over nonce and ciphertext under key
GcmTag(key, nonce, ct) ==
    <<(KeyMix1(key) + SumSeq(nonce) + SumSeq(ct)) % 256,
      (KeyMix2(key) + WeightedSum(nonce \o ct, 1)) % 256>>

\* gcm.Seal(nil, nonce, plaintext, nil): ciphertext followed by the tag
GcmSeal(key, nonce, pt) ==
    LET ct == [i \in 1..Len(pt) |-> (pt[i] + KeyStream(key, nonce, i)) % 256]
    IN  ct \o GcmTag(key, nonce, ct)

\* gcm.Open(nil, nonce, ciphertext, nil): [ok, pt]
GcmOpen(key, nonce, sealed) ==
    IF Len(sealed) < 2 THEN [ok |-> FALSE, pt |-> <<>>]
    ELSE
        LET ct == SubSeq(sealed, 1, Len(sealed) - 2)
            tag == SubSeq(sealed, Len(sealed) - 1, Len(sealed))
        IN  IF tag # GcmTag(key, nonce, ct) THEN [ok |-> FALSE, pt |-> <<>>]
            ELSE [ok |-> TRUE,
                  pt |-> [i \in 1..Len(ct) |->
                            (ct[i] - KeyStream(key, nonce, i) + 256) % 256]]

----------------------------------------------------------------------------
(* Key derivation.                                                          *)

\* parse32ByteKey: [ok, key]
parse32ByteKey(v) ==
    LET s == TrimSpace(v)
        h == HexDecode(s)
        b == Base64Decode(s)
    IN  IF s = <<>> THEN [ok |-> FALSE, key |-> <<>>]
        ELSE IF Len(s) = HexKeyLen /\ h.ok /\ Len(h.bytes) = KeyBytes
            THEN [ok |-> TRUE, key |-> h.bytes]
        ELSE IF b.ok /\ Len(b.bytes) = KeyBytes
            THEN [ok |-> TRUE, key |-> b.bytes]
        ELSE [ok |-> FALSE, key |-> <<>>]

\* "sub2api:compaction:ephemeral:"
EphemeralPrefix ==
    <<115, 117, 98, 50, 97, 112, 105, 58, 99, 111, 109, 112, 97, 99, 116, 105,
      111, 110, 58, 101, 112, 104, 101, 109, 101, 114, 97, 108, 58>>

\* time.Time.Format(time.RFC3339Nano): the decimal digits of the instant
RECURSIVE FormatTime(_)
FormatTime(t) ==
    IF t < 10 THEN <<48 + t>> ELSE FormatTime(t \div 10) \o <<48 + (t % 10)>>

\* Which of the four sources compactionKey uses: "env", "totp", "jwt",
\* "ephemeral".
KeySource(env, totp, jwt) ==
    IF TrimSpace(env) # <<>> THEN "env"
    ELSE IF TrimSpace(totp) # <<>> THEN "totp"
    ELSE IF TrimSpace(jwt) # <<>> THEN "jwt"
    ELSE "ephemeral"

\* compactionKey with an invalid override or TOTP key skipped instead of
\* reported
compactionKeyFallThrough(env, totp, jwt, t) ==
    IF TrimSpace(env) # <<>> /\ parse32ByteKey(TrimSpace(env)).ok THEN
        [err |-> "none", key |-> parse32ByteKey(TrimSpace(env)).key]
    ELSE IF TrimSpace(totp) # <<>> /\ parse32ByteKey(TrimSpace(totp)).ok THEN
        [err |-> "none", key |-> parse32ByteKey(TrimSpace(totp)).key]
    ELSE IF TrimSpace(jwt) # <<>> THEN
        [err |-> "none", key |-> Sha256(TrimSpace(jwt))]
    ELSE
        [err |-> "none", key |-> Sha256(EphemeralPrefix \o FormatTime(t))]

\* compactionKey with the TOTP key consulted before the override
compactionKeyTotpFirst(env, totp, jwt, t) ==
    IF TrimSpace(totp) # <<>> THEN
        IF parse32ByteKey(TrimSpace(totp)).ok
        THEN [err |-> "none", key |-> parse32ByteKey(TrimSpace(totp)).key]
        ELSE [err |-> "invalid totp.encryption_key", key |-> <<>>]
    ELSE IF TrimSpace(env) # <<>> THEN
        IF parse32ByteKey(TrimSpace(env)).ok
        THEN [err |-> "none", key |-> parse32ByteKey(TrimSpace(env)).key]
        ELSE [err |-> "invalid SUB2API_COMPACTION_KEY", key |-> <<>>]
    ELSE IF TrimSpace(jwt) # <<>> THEN
        [err |-> "none", key |-> Sha256(TrimSpace(jwt))]
    ELSE
        [err |-> "none", key |-> Sha256(EphemeralPrefix \o FormatTime(t))]

\* compactionKey, called at instant t: [err, key]
compactionKey(env, totp, jwt, t) ==
    IF TrimSpace(env) # <<>> THEN
        IF parse32ByteKey(TrimSpace(env)).ok
        THEN [err |-> "none", key |-> parse32ByteKey(TrimSpace(env)).key]
        ELSE [err |-> "invalid SUB2API_COMPACTION_KEY", key |-> <<>>]
    ELSE IF TrimSpace(totp) # <<>> THEN
        IF parse32ByteKey(TrimSpace(totp)).ok
        THEN [err |-> "none", key |-> parse32ByteKey(TrimSpace(totp)).key]
        ELSE [err |-> "invalid totp.encryption_key", key |-> <<>>]
    ELSE IF TrimSpace(jwt) # <<>> THEN
        [err |-> "none", key |-> Sha256(TrimSpace(jwt))]
    ELSE
        [err |-> "none", key |-> Sha256(EphemeralPrefix \o FormatTime(t))]

----------------------------------------------------------------------------
(* The codec.                                                               *)

\* encryptCompactionSummary sealing the summary as given, untrimmed
encryptUntrimmed(env, totp, jwt, t, nonce, summary) ==
    LET k == compactionKey(env, totp, jwt, t)
    IN  IF k.err # "none" THEN [err |-> k.err, token |-> <<>>]
        ELSE [err |-> "none",
              token |-> Base64Encode(nonce \o GcmSeal(k.key, nonce, summary))]

\* encryptCompactionSummary with the nonce read from crypto/rand: [err, token]
encryptCompactionSummary(env, totp, jwt, t, nonce, summary) ==
    LET k == compactionKey(env, totp, jwt, t)
    IN  IF k.err # "none" THEN [err |-> k.err, token |-> <<>>]
        ELSE [err |-> "none",
              token |-> Base64Encode(nonce \o GcmSeal(k.key, nonce, TrimSpace(summary)))]

\* decryptCompactionSummary with the error of gcm.Open dropped
decryptIgnoringOpenError(env, totp, jwt, t, encrypted) ==
    LET k == compactionKey(env, totp, jwt, t)
        raw == Base64Decode(TrimSpace(encrypted))
    IN  IF k.err # "none" THEN [err |-> k.err, text |-> <<>>]
        ELSE IF ~raw.ok THEN [err |-> "illegal base64 data", text |-> <<>>]
        ELSE IF Len(raw.bytes) < NonceSize
            THEN [err |-> "invalid encrypted_content", text |-> <<>>]
        ELSE [err |-> "none",
              text |-> GcmOpen(k.key, SubSeq(raw.bytes, 1, NonceSize),
                               SubSeq(raw.bytes, NonceSize + 1, Len(raw.bytes))).pt]

\* decryptCompactionSummary: [err, text]
decryptCompactionSummary(env, totp, jwt, t, encrypted) ==
    LET k == compactionKey(env, totp, jwt, t)
        raw == Base64Decode(TrimSpace(encrypted))
    IN  IF k.err # "none" THEN [err |-> k.err, text |-> <<>>]
        ELSE IF ~raw.ok THEN [err |-> "illegal base64 data", text |-> <<>>]
        ELSE IF Len(raw.bytes) < NonceSize
            THEN [err |-> "invalid encrypted_content", text |-> <<>>]
        ELSE
            LET opened == GcmOpen(k.key, SubSeq(raw.bytes, 1, NonceSize),
                                  SubSeq(raw.bytes, NonceSize + 1, Len(raw.bytes)))
            IN  IF ~opened.ok
                THEN [err |-> "cipher: message authentication failed", text |-> <<>>]
                ELSE [err |-> "none", text |-> opened.pt]

----------------------------------------------------------------------------
(* Inputs of the codec exchange.                                            *)

MaxClock == 2

\* a 32-byte key as 43 base64 characters and one '=', with whitespace around
B64KeyEnv == <<32>> \o Rep(43, 65) \o <<61, 10>>
\* 64 characters that are not hex digits (and 48 bytes as base64)
NonHex64 == Rep(64, 122)
\* a 32-byte key as 64 hex characters
HexKeyTotp == Rep(64, 49)
\* 63 hex characters
Short63 == Rep(63, 97)
\* "unit-test-jwt-secret"
JwtSecret ==
    <<117, 110, 105, 116, 45, 116, 101, 115, 116, 45, 106, 119, 116, 45, 115,
      101, 99, 114, 101, 116>>

EnvPool == {<<>>, B64KeyEnv, NonHex64}
TotpPool == {<<>>, HexKeyTotp, Short63}
JwtPool == {<<>>, JwtSecret}

\* " S1\n", "a b", " " and ""
SummaryPool == {<<32, 83, 49, 10>>, <<97, 32, 98>>, <<32>>, <<>>}

NoncePool == {Rep(NonceSize, 0), [i \in 1..NonceSize |-> (37 * i) % 256]}

\* how a byte changed in flight differs from the original, modulo 256
TamperDeltas == {1, 128, 255}

\* tokens a client made up: "AAAA", "!!!!", "QUJD" with a blank, 16 zero bytes
ForeignTokens ==
    {<<65, 65, 65, 65>>, <<33, 33, 33, 33>>, <<81, 85, 74, 68, 32>>,
     Base64Encode(Rep(16, 0))}

ClockReads(env, totp, jwt) ==
    IF KeySource(env, totp, jwt) = "ephemeral" THEN now..MaxClock ELSE {now}

----------------------------------------------------------------------------
(* Idle values of the parts a specification does not exercise.              *)

NoBody == [isNil |-> TRUE, input |-> [kind |-> "absent", items |-> <<>>],
           instructions |-> [kind |-> "absent", text |-> <<>>]]
NoFault == [set |-> FALSE]

CodecIdle ==
    /\ cStage = "idle"
    /\ cSummary = <<>>
    /\ cToken = <<>>
    /\ cEncErr = "none"
    /\ cEncKey = <<>>
    /\ cEncCfg = <<>>
    /\ cTampered = FALSE
    /\ cDecOut = <<>>
    /\ cDecErr = "none"
    /\ cDecKey = <<>>

ExpandIdle ==
    /\ xBody = NoBody
    /\ xOrig = NoBody
    /\ xPrev = NoBody
    /\ xCalls = 0
    /\ xChanged = FALSE
    /\ xErr = "none"
    /\ xFirst = "pending"

FaultIdle ==
    /\ ctxFault = NoFault
    /\ firstFault = NoFault
    /\ faultCalls = 0
    /\ lastCtxNil = FALSE
    /\ lastFault = NoFault

FwdIdle ==
    /\ fStage = "ready"
    /\ fIn = [isNil |-> TRUE]
    /\ fOut = [isNil |-> TRUE]

TrackIdle ==
    /\ trk = [hasLast |-> FALSE, hasBytes |-> FALSE, lastReadAt |-> 0, bytesRead |-> 0]
    /\ tClock = 0
    /\ tLog = <<>>

CompactIdle ==
    /\ kStage = "ready"
    /\ kIn = [isNil |-> TRUE]
    /\ kOut = [isNil |-> TRUE]

DumpIdle ==
    /\ dStage = "ready"
    /\ dIn = [isNil |-> TRUE]
    /\ dOut = [isNil |-> TRUE]

RaceIdle ==
    /\ rCtx = NoFault
    /\ rPc = <<>>
    /\ rArg = <<>>
    /\ rWrites = <<>>

RetryIdle ==
    /\ yLog = <<>>
    /\ yWrites = <<>>

NoPending == [n |-> 0, err |-> "none", at |-> 0]

WatchIdle ==
    /\ wPc = "idle"
    /\ wPending = NoPending
    /\ wInner = 0
    /\ wSeen = <<>>

LateIdle == RetryIdle /\ WatchIdle

RestIdle ==
    /\ TrackIdle
    /\ CompactIdle
    /\ DumpIdle
    /\ RaceIdle
    /\ LateIdle

----------------------------------------------------------------------------
(* The codec exchange: a summary is encrypted, the token travels to the     *)
(* client and back (possibly altered, possibly to a differently configured *)
(* service), and is decrypted.                                              *)

CodecInit ==
    /\ envKey \in EnvPool
    /\ cfgTotp \in TotpPool
    /\ cfgJwt \in JwtPool
    /\ now = 0
    /\ CodecIdle
    /\ ExpandIdle
    /\ FaultIdle
    /\ FwdIdle
    /\ RestIdle

Encrypt(summary, nonce) ==
    /\ cStage = "idle"
    /\ \E t \in ClockReads(envKey, cfgTotp, cfgJwt) :
        LET r == encryptCompactionSummary(envKey, cfgTotp, cfgJwt, t, nonce, summary)
        IN  /\ now' = t
            /\ cToken' = r.token
            /\ cEncErr' = r.err
            /\ cEncKey' = compactionKey(envKey, cfgTotp, cfgJwt, t).key
    /\ cSummary' = summary
    /\ cEncCfg' = <<envKey, cfgTotp, cfgJwt>>
    /\ cStage' = "encrypted"
    /\ UNCHANGED <<envKey, cfgTotp, cfgJwt, cTampered, cDecOut, cDecErr, cDecKey>>
    /\ UNCHANGED <<expandVars, faultVars, fwdVars, restVars>>

\* a client submits a token this service never produced
SubmitToken(tok) ==
    /\ cStage = "idle"
    /\ cToken' = tok
    /\ cEncErr' = "foreign"
    /\ cStage' = "encrypted"
    /\ UNCHANGED <<cfgVars, cSummary, cEncKey, cEncCfg, cTampered, cDecOut, cDecErr, cDecKey>>
    /\ UNCHANGED <<expandVars, faultVars, fwdVars, restVars>>

\* one byte of the decoded token (nonce, ciphertext or tag) is changed
TamperToken(i, d) ==
    /\ cStage = "encrypted"
    /\ cEncErr = "none"
    /\ ~cTampered
    /\ <<envKey, cfgTotp, cfgJwt>> = cEncCfg
    /\ LET raw == Base64Decode(cToken).bytes
       IN  /\ i \in 1..Len(raw)
           /\ cToken' = Base64Encode([raw EXCEPT ![i] = (raw[i] + d) % 256])
    /\ cTampered' = TRUE
    /\ UNCHANGED <<cfgVars, cStage, cSummary, cEncErr, cEncKey, cEncCfg, cDecOut, cDecErr, cDecKey>>
    /\ UNCHANGED <<expandVars, faultVars, fwdVars, restVars>>

\* the token comes back to a service whose key sources are set differently
Reconfigure(env, totp, jwt) ==
    /\ cStage = "encrypted"
    /\ ~cTampered
    /\ <<env, totp, jwt>> # <<envKey, cfgTotp, cfgJwt>>
    /\ envKey' = env
    /\ cfgTotp' = totp
    /\ cfgJwt' = jwt
    /\ UNCHANGED <<now, codecVars>>
    /\ UNCHANGED <<expandVars, faultVars, fwdVars, restVars>>

Decrypt ==
    /\ cStage = "encrypted"
    /\ \E t \in ClockReads(envKey, cfgTotp, cfgJwt) :
        LET r == decryptCompactionSummary(envKey, cfgTotp, cfgJwt, t, cToken)
        IN  /\ now' = t
            /\ cDecOut' = r.text
            /\ cDecErr' = r.err
            /\ cDecKey' = compactionKey(envKey, cfgTotp, cfgJwt, t).key
    /\ cStage' = "decrypted"
    /\ UNCHANGED <<envKey, cfgTotp, cfgJwt, cSummary, cToken, cEncErr, cEncKey, cEncCfg, cTampered>>
    /\ UNCHANGED <<expandVars, faultVars, fwdVars, restVars>>

CodecNext ==
    \/ \E s \in SummaryPool, n \in NoncePool : Encrypt(s, n)
    \/ \E tok \in ForeignTokens : SubmitToken(tok)
    \/ \E i \in 1..(NonceSize + 8), d \in TamperDeltas : TamperToken(i, d)
    \/ \E e \in EnvPool, t \in TotpPool, j \in JwtPool : Reconfigure(e, t, j)
    \/ Decrypt

SpecCodec == CodecInit /\ [][CodecNext]_vars

----------------------------------------------------------------------------
(* expandCompactionIntoInstructions.                                        *)
(*                                                                          *)
(* reqBody is [isNil, input, instructions]: input.kind is "absent", "null", *)
(* "other" (not a list) or "list"; instructions.kind is "absent", "string"  *)
(* or "other".  An item of the list is a map (kind "map") with its "type"   *)
(* and "encrypted_content" (enc.has is FALSE when the key is missing or not *)
(* a string), or some other JSON value.  Its field plain records what the  *)
(* token was made from and is never read by the code.                       *)

\* "Conversation history summary (from /v1/responses/compact):\n"
SummaryHeader ==
    <<67, 111, 110, 118, 101, 114, 115, 97, 116, 105, 111, 110, 32, 104, 105,
      115, 116, 111, 114, 121, 32, 115, 117, 109, 109, 97, 114, 121, 32, 40,
      102, 114, 111, 109, 32, 47, 118, 49, 47, 114, 101, 115, 112, 111, 110,
      115, 101, 115, 47, 99, 111, 109, 112, 97, 99, 116, 41, 58, 10>>

\* "\n\n"
BlankLine == <<10, 10>>

IsCompactionType(typ) == typ \in {"compaction", "compaction_summary"}

\* encrypted_content of an item, trimmed; <<>> when it is missing
EncryptedContent(item) ==
    IF item.enc.has THEN TrimSpace(item.enc.text) ELSE <<>>

\* what one item of the input contributes, dec being the decryption of enc
ItemOutcome(item, enc, dec) ==
    IF item.kind # "map" \/ ~IsCompactionType(item.type) THEN
        [err |-> "none", keep |-> TRUE, summary |-> <<>>]
    ELSE IF enc = <<>> THEN
        [err |-> "compaction item missing encrypted_content",
         keep |-> FALSE, summary |-> <<>>]
    ELSE IF dec.err # "none" THEN
        [err |-> "invalid compaction encrypted_content",
         keep |-> FALSE, summary |-> <<>>]
    ELSE
        [err |-> "none", keep |-> FALSE, summary |-> TrimSpace(dec.text)]

RECURSIVE ExpandLoop(_, _, _, _, _, _)

\* the loop body putting each summary in front of the earlier ones
ExpandStepReversed(env, totp, jwt, rest, summaries, newInput, item, o) ==
    IF o.err # "none" THEN
        [err |-> o.err, summaries |-> summaries, newInput |-> newInput]
    ELSE
        ExpandLoop(env, totp, jwt, rest,
                   IF o.summary # <<>> THEN <<o.summary>> \o summaries
                   ELSE summaries,
                   IF o.keep THEN Append(newInput, item) ELSE newInput)

\* the loop body for one item with outcome o, then the rest of the items
ExpandStep(env, totp, jwt, rest, summaries, newInput, item, o) ==
    IF o.err # "none" THEN
        [err |-> o.err, summaries |-> summaries, newInput |-> newInput]
    ELSE
        ExpandLoop(env, totp, jwt, rest,
                   IF o.summary # <<>> THEN Append(summaries, o.summary)
                   ELSE summaries,
                   IF o.keep THEN Append(newInput, item) ELSE newInput)

\* the loop over the input items: [err, summaries, newInput]
ExpandLoop(env, totp, jwt, items, summaries, newInput) ==
    IF items = <<>> THEN
        [err |-> "none", summaries |-> summaries, newInput |-> newInput]
    ELSE
        ExpandStep(env, totp, jwt, Tail(items), summaries, newInput, Head(items),
                   ItemOutcome(Head(items), EncryptedContent(Head(items)),
                               decryptCompactionSummary(env, totp, jwt, 0,
                                   EncryptedContent(Head(items)))))

\* the instructions after the block is appended
WithBlock(instructions, summaries) ==
    LET block == SummaryHeader \o Join(summaries, BlankLine)
        existing == IF instructions.kind = "string"
                    THEN TrimSpace(instructions.text) ELSE <<>>
    IN  [kind |-> "string",
         text |-> IF existing = <<>> THEN block
                  ELSE existing \o BlankLine \o block]

\* a finish that writes the filtered input back before it reports an error
FinishCommittingOnError(reqBody, r) ==
    IF r.err # "none" THEN
        [changed |-> FALSE, err |-> r.err,
         body |-> [reqBody EXCEPT !.input.items = r.newInput]]
    ELSE IF r.summaries = <<>> THEN
        [changed |-> FALSE, err |-> "none", body |-> reqBody]
    ELSE
        [changed |-> TRUE, err |-> "none",
         body |-> [reqBody EXCEPT
                      !.input.items = r.newInput,
                      !.instructions = WithBlock(reqBody.instructions, r.summaries)]]

\* a finish without the early return for an empty summary list
FinishAlwaysAppending(reqBody, r) ==
    IF r.err # "none" THEN
        [changed |-> FALSE, err |-> r.err, body |-> reqBody]
    ELSE
        [changed |-> TRUE, err |-> "none",
         body |-> [reqBody EXCEPT
                      !.input.items = r.newInput,
                      !.instructions = WithBlock(reqBody.instructions, r.summaries)]]

\* what the function returns and leaves in reqBody after the loop gave r
FinishExpansion(reqBody, r) ==
    IF r.err # "none" THEN
        [changed |-> FALSE, err |-> r.err, body |-> reqBody]
    ELSE IF r.summaries = <<>> THEN
        [changed |-> FALSE, err |-> "none", body |-> reqBody]
    ELSE
        [changed |-> TRUE, err |-> "none",
         body |-> [reqBody EXCEPT
                      !.input.items = r.newInput,
                      !.instructions = WithBlock(reqBody.instructions, r.summaries)]]

\* expandCompactionIntoInstructions: [changed, err, body], body being reqBody
\* as the call leaves it
expandCompactionIntoInstructions(env, totp, jwt, reqBody) ==
    IF reqBody.isNil \/ reqBody.input.kind # "list" \/ reqBody.input.items = <<>>
    THEN [changed |-> FALSE, err |-> "none", body |-> reqBody]
    ELSE FinishExpansion(reqBody,
                         ExpandLoop(env, totp, jwt, reqBody.input.items, <<>>, <<>>))

----------------------------------------------------------------------------
(* Request bodies handed to the expansion.                                  *)

MaxItems == 3

NoEnc == [has |-> FALSE, text |-> <<>>]
NoPlain == [ok |-> FALSE, text |-> <<>>]

\* a token the service (keyed by JwtSecret, as in the unit test) issued
IssuedToken(nonce, summary) ==
    encryptCompactionSummary(<<>>, <<>>, JwtSecret, 0, nonce, summary).token

\* "SUMMARY"
SummaryText == <<83, 85, 77, 77, 65, 82, 89>>

MessageItem ==
    [kind |-> "map", type |-> "message", enc |-> NoEnc, plain |-> NoPlain]
StringItem ==
    [kind |-> "string", type |-> "", enc |-> NoEnc, plain |-> NoPlain]
CompactionA ==
    [kind |-> "map", type |-> "compaction",
     enc |-> [has |-> TRUE, text |-> IssuedToken(Rep(NonceSize, 0), SummaryText)],
     plain |-> [ok |-> TRUE, text |-> SummaryText]]
\* a compaction_summary item for "a b" whose token has whitespace around it
CompactionB ==
    [kind |-> "map", type |-> "compaction_summary",
     enc |-> [has |-> TRUE,
              text |-> <<32>> \o IssuedToken(Rep(NonceSize, 7), <<97, 32, 98>>) \o <<10>>],
     plain |-> [ok |-> TRUE, text |-> <<97, 32, 98>>]]
\* a token sealing a summary that trims to nothing
CompactionEmpty ==
    [kind |-> "map", type |-> "compaction",
     enc |-> [has |-> TRUE, text |-> IssuedToken(Rep(NonceSize, 0), <<32>>)],
     plain |-> [ok |-> TRUE, text |-> <<>>]]
CompactionMissing ==
    [kind |-> "map", type |-> "compaction", enc |-> NoEnc, plain |-> NoPlain]
CompactionBlank ==
    [kind |-> "map", type |-> "compaction_summary",
     enc |-> [has |-> TRUE, text |-> <<32, 10>>], plain |-> NoPlain]
\* a token sealed under another key
CompactionForeign ==
    [kind |-> "map", type |-> "compaction",
     enc |-> [has |-> TRUE,
              text |-> encryptCompactionSummary(<<>>, HexKeyTotp, <<>>, 0,
                                                Rep(NonceSize, 0), SummaryText).token],
     plain |-> NoPlain]

ItemPool ==
    {MessageItem, StringItem, CompactionA, CompactionB, CompactionEmpty,
     CompactionMissing, CompactionBlank, CompactionForeign}

ItemLists == UNION {[1..n -> ItemPool] : n \in 0..MaxItems}

InputPool ==
    {[kind |-> "absent", items |-> <<>>], [kind |-> "null", items |-> <<>>],
     [kind |-> "other", items |-> <<>>]}
    \cup {[kind |-> "list", items |-> l] : l \in ItemLists}

\* absent, a number, "  ", and " base\n"
InstructionsPool ==
    {[kind |-> "absent", text |-> <<>>], [kind |-> "other", text |-> <<>>],
     [kind |-> "string", text |-> <<32, 32>>],
     [kind |-> "string", text |-> <<32, 98, 97, 115, 101, 10>>]}

ExpandInit ==
    /\ envKey = <<>>
    /\ cfgTotp = <<>>
    /\ cfgJwt = JwtSecret
    /\ now = 0
    /\ \/ xBody = NoBody
       \/ \E i \in InputPool, n \in InstructionsPool :
            xBody = [isNil |-> FALSE, input |-> i, instructions |-> n]
    /\ xOrig = xBody
    /\ xPrev = xBody
    /\ xCalls = 0
    /\ xChanged = FALSE
    /\ xErr = "none"
    /\ xFirst = "pending"
    /\ CodecIdle
    /\ FaultIdle
    /\ FwdIdle
    /\ RestIdle

\* one call of expandCompactionIntoInstructions on the request body
Expand ==
    /\ xCalls < 2
    /\ LET r == expandCompactionIntoInstructions(envKey, cfgTotp, cfgJwt, xBody)
       IN  /\ xBody' = r.body
           /\ xChanged' = r.changed
           /\ xErr' = r.err
           /\ xFirst' = IF xCalls > 0 THEN xFirst
                        ELSE IF r.err # "none" THEN "error"
                        ELSE IF r.changed THEN "changed"
                        ELSE "unchanged"
    /\ xPrev' = xBody
    /\ xCalls' = xCalls + 1
    /\ UNCHANGED <<xOrig, cfgVars, codecVars, faultVars, fwdVars, restVars>>

ExpandNext == Expand

SpecExpand == ExpandInit /\ [][ExpandNext]_vars

----------------------------------------------------------------------------
(* SetOpsStreamFault.  The value stored in the gin.Context under            *)
(* OpsStreamFaultKey is [set |-> FALSE] or [set |-> TRUE, fault |-> f].     *)

\* "internal"
PhaseInternal == <<105, 110, 116, 101, 114, 110, 97, 108>>
\* "stream_fault"
TypeStreamFault == <<115, 116, 114, 101, 97, 109, 95, 102, 97, 117, 108, 116>>
DefaultFaultStatus == 499

\* the fault as the function stores it
NormalizeFault(fault) ==
    LET phase == TrimSpace(ToLower(fault.Phase))
        type == TrimSpace(fault.Type)
    IN  [Phase |-> IF phase = <<>> THEN PhaseInternal ELSE phase,
         Type |-> IF type = <<>> THEN TypeStreamFault ELSE type,
         StatusCode |-> IF fault.StatusCode <= 0 THEN DefaultFaultStatus
                        ELSE fault.StatusCode,
         Message |-> TrimSpace(fault.Message),
         Detail |-> TrimSpace(fault.Detail),
         Owner |-> TrimSpace(ToLower(fault.Owner)),
         Source |-> TrimSpace(ToLower(fault.Source))]

\* SetOpsStreamFault without the check for a fault already stored
SetOpsStreamFaultOverwriting(ctxNil, stored, fault) ==
    IF ctxNil THEN stored
    ELSE [set |-> TRUE, fault |-> NormalizeFault(fault)]

\* SetOpsStreamFault(c, fault): the value under OpsStreamFaultKey afterwards
SetOpsStreamFault(ctxNil, stored, fault) ==
    IF ctxNil THEN stored
    ELSE IF stored.set THEN stored
    ELSE [set |-> TRUE, fault |-> NormalizeFault(fault)]

MaxFaultCalls == 3

\* "", " Upstream " and "network"
PhasePool ==
    {<<>>, <<32, 85, 112, 115, 116, 114, 101, 97, 109, 32>>,
     <<110, 101, 116, 119, 111, 114, 107>>}
\* "" and " Timeout\n"
TypePool == {<<>>, <<32, 84, 105, 109, 101, 111, 117, 116, 10>>}
StatusPool == {-1, 0, 200, 502}
\* " EOF "
MessagePool == {<<32, 69, 79, 70, 32>>}
\* "" and "Provider "
OwnerPool == {<<>>, <<80, 114, 111, 118, 105, 100, 101, 114, 32>>}

FaultPool ==
    [Phase : PhasePool, Type : TypePool, StatusCode : StatusPool,
     Message : MessagePool, Detail : {<<>>}, Owner : OwnerPool,
     Source : {<<>>}]

FaultInit ==
    /\ envKey = <<>>
    /\ cfgTotp = <<>>
    /\ cfgJwt = JwtSecret
    /\ now = 0
    /\ CodecIdle
    /\ ExpandIdle
    /\ FaultIdle
    /\ FwdIdle
    /\ RestIdle

\* a failure detector reports a fault
FaultCall(ctxNil, fault) ==
    /\ faultCalls < MaxFaultCalls
    /\ ctxFault' = SetOpsStreamFault(ctxNil, ctxFault, fault)
    /\ firstFault' = IF ~ctxNil /\ ~firstFault.set
                     THEN [set |-> TRUE, fault |-> fault]
                     ELSE firstFault
    /\ faultCalls' = faultCalls + 1
    /\ lastCtxNil' = ctxNil
    /\ lastFault' = [set |-> TRUE, fault |-> fault]
    /\ UNCHANGED <<cfgVars, codecVars, expandVars, fwdVars, restVars>>

FaultNext == \E n \in BOOLEAN, f \in FaultPool : FaultCall(n, f)

SpecFault == FaultInit /\ [][FaultNext]_vars

----------------------------------------------------------------------------
(* forwardForCompactJSON: the upstream invoker.                             *)
(*                                                                          *)
(* A request or response body is a byte string.  A request body is          *)
(* [valid, canon, doc]: whether it parses as a JSON object, whether its      *)
(* bytes are what json.Marshal writes for doc, and the parsed document.     *)
(* A document is [model, modelIsString, stream, cacheKey, cacheKeyIsString,  *)
(* unsupported, input, instructions]: model is "" when the key is absent or *)
(* not a string; stream is "absent", "true", "false" or "other";            *)
(* unsupported is the set of keys present among the three the code deletes; *)
(* input and instructions are as in expandCompactionIntoInstructions.       *)
(* A response body is [kind, marker, doc, finals, rewritten]: kind is       *)
(* "json" (the document doc), "sse" (an event stream whose completed        *)
(* responses are finals, in order), "text" or "empty"; marker says whether  *)
(* the bytes contain "data:" or "event:"; rewritten whether the gateway     *)
(* serialized the body anew.                                                *)
(*                                                                          *)
(* Functions of the repository that src/ does not hold are taken from the   *)
(* specification: GetMappedModel, normalizeCodexModel,                      *)
(* applyCodexOAuthTransform, GetAccessToken, buildUpstreamRequest,          *)
(* shouldFailoverUpstreamError, handleFailoverSideEffects,                  *)
(* handleErrorResponse, extractCodexFinalResponse, isEventStreamResponse,   *)
(* replaceModelInResponseBody, sanitizeUpstreamErrorMessage.                *)

\* io.LimitReader(resp.Body, 2<<20)
FailoverBodyLimit == 2097152

UnsupportedFields == {"prompt_cache_retention", "safety_identifier", "previous_response_id"}

AccountTypeOAuth == "oauth"
AccountTypeAPIKey == "apikey"

Min(a, b) == IF a < b THEN a ELSE b

NoResult == [isNil |-> TRUE]
NoRespBody == [isNil |-> TRUE]
NoError == [kind |-> "none"]

\* json.Marshal(reqBody)
MarshalDoc(doc) == [valid |-> TRUE, canon |-> TRUE, doc |-> doc]

\* account.GetMappedModel(requestedModel)
GetMappedModel(account, model) == account.mapping[model]

\* the stream flag left as the client gave it when it is a boolean
ForceStreamKeepingClient(account, doc) ==
    LET want == account.Type = AccountTypeOAuth
        isBool == doc.stream \in {"true", "false"}
    IN  [doc |-> IF isBool THEN doc
                 ELSE [doc EXCEPT !.stream = IF want THEN "true" ELSE "false"],
         modified |-> ~isBool,
         reqStream |-> IF isBool THEN doc.stream = "true" ELSE want]

\* lines 168-174: the stream flag is forced to the account's need
ForceStream(account, doc) ==
    LET want == account.Type = AccountTypeOAuth
        wantText == IF want THEN "true" ELSE "false"
    IN  [doc |-> [doc EXCEPT !.stream = wantText],
         modified |-> doc.stream # wantText,
         reqStream |-> IF doc.stream # wantText THEN want ELSE doc.stream = "true"]

\* lines 176-190: account mapping, then model id normalization:
\* [doc, modified, mappedModel]
MapModel(account, normalize, doc) ==
    LET reqModel == doc.model
        mapped == GetMappedModel(account, reqModel)
        doc1 == IF mapped # reqModel
                THEN [doc EXCEPT !.model = mapped, !.modelIsString = TRUE]
                ELSE doc
        normalized == IF doc1.modelIsString THEN normalize[doc1.model] ELSE ""
        renorm == doc1.modelIsString /\ normalized # "" /\ normalized # doc1.model
    IN  [doc |-> IF renorm THEN [doc1 EXCEPT !.model = normalized] ELSE doc1,
         modified |-> mapped # reqModel \/ renorm,
         mappedModel |-> IF renorm THEN normalized ELSE mapped]

\* applyCodexOAuthTransform: the outcome codex = [Modified, NormalizedModel,
\* PromptCacheKey] is the collaborator's; a non-empty NormalizedModel is the
\* model it left in the document
ApplyCodexTransform(codex, doc) ==
    IF codex.NormalizedModel # ""
    THEN [doc EXCEPT !.model = codex.NormalizedModel, !.modelIsString = TRUE]
    ELSE doc

\* lines 205-213: [doc, modified]
DropUnsupported(isCodexCLI, doc) ==
    IF isCodexCLI THEN [doc |-> doc, modified |-> FALSE]
    ELSE [doc |-> [doc EXCEPT !.unsupported = {}],
          modified |-> doc.unsupported # {}]

\* lines 151-224: everything done to the request before the token is
\* fetched: [body, doc, originalModel, mappedModel, reqStream,
\* promptCacheKey, bodyModified]
NormalizeRequest(c, account, normalize, codex, body) ==
    LET doc0 == body.doc
        isCodexCLI == ~c.isNil /\ c.codexCLI
        st == ForceStream(account, doc0)
        mm == MapModel(account, normalize, st.doc)
        oauth == account.Type = AccountTypeOAuth
        doc3 == IF oauth THEN ApplyCodexTransform(codex, mm.doc) ELSE mm.doc
        mapped3 == IF oauth /\ codex.NormalizedModel # ""
                   THEN codex.NormalizedModel ELSE mm.mappedModel
        key0 == IF doc0.cacheKeyIsString THEN TrimSpace(doc0.cacheKey) ELSE <<>>
        key3 == IF oauth /\ codex.PromptCacheKey # <<>>
                THEN codex.PromptCacheKey ELSE key0
        un == DropUnsupported(isCodexCLI, doc3)
        modified == \/ st.modified
                    \/ mm.modified
                    \/ (oauth /\ codex.Modified)
                    \/ un.modified
    IN  [body |-> IF modified THEN MarshalDoc(un.doc) ELSE body,
         doc |-> un.doc,
         originalModel |-> doc0.model,
         mappedModel |-> mapped3,
         reqStream |-> st.reqStream,
         promptCacheKey |-> key3,
         bodyModified |-> modified]

\* sanitizeUpstreamErrorMessage: credentials in URLs are redacted
SanitizeError(e) == [e EXCEPT !.credentials = FALSE]

ErrorEvent(kind, status, message) ==
    [Kind |-> kind, UpstreamStatusCode |-> status, Message |-> message]

\* the upstream's body for the request it was sent: a model named "@sent"
\* echoes the model of the request
RespondTo(template, sentModel) ==
    LET fix(d) == IF d.model = "@sent" THEN [d EXCEPT !.model = sentModel] ELSE d
    IN  [template EXCEPT
            !.doc = fix(template.doc),
            !.finals = [i \in 1..Len(template.finals) |-> fix(template.finals[i])]]

\* extractCodexFinalResponse: the last completed response of an event
\* stream, [ok, body]
ExtractFinalResponse(raw) ==
    IF raw.kind = "sse" /\ raw.finals # <<>>
    THEN [ok |-> TRUE,
          body |-> [kind |-> "json", marker |-> FALSE, doc |-> raw.finals[Len(raw.finals)],
                    finals |-> <<>>, rewritten |-> FALSE]]
    ELSE [ok |-> FALSE, body |-> raw]

\* lines 317-325: the body after the streaming bridge
BridgeBody(account, sseHeader, raw) ==
    IF account.Type = AccountTypeOAuth /\ (sseHeader \/ raw.marker)
       /\ ExtractFinalResponse(raw).ok
    THEN ExtractFinalResponse(raw).body
    ELSE raw

ZeroUsage == [InputTokens |-> 0, OutputTokens |-> 0, CacheReadInputTokens |-> 0]

\* parseOpenAIUsage with the nil case of lines 327-330 folded in
ParseUsage(body) ==
    IF body.kind # "json" \/ ~body.doc.usage.has THEN ZeroUsage
    ELSE [InputTokens |-> body.doc.usage.input,
          OutputTokens |-> body.doc.usage.output,
          CacheReadInputTokens |-> body.doc.usage.cached]

\* replaceModelInResponseBody(body, fromModel, toModel)
ReplaceModel(body, fromModel, toModel) ==
    IF body.kind = "json" /\ body.doc.model = fromModel
    THEN [body EXCEPT !.doc.model = toModel, !.rewritten = TRUE]
    ELSE body

\* the replacement with its model arguments swapped
RestoreModelSwapped(body, originalModel, mappedModel) ==
    IF originalModel # mappedModel
    THEN ReplaceModel(body, originalModel, mappedModel)
    ELSE body

\* the replacement run even when the two model ids are the same
RestoreModelAlways(body, originalModel, mappedModel) ==
    ReplaceModel(body, mappedModel, originalModel)

\* lines 332-334
RestoreModel(body, originalModel, mappedModel) ==
    IF originalModel # mappedModel
    THEN ReplaceModel(body, mappedModel, originalModel)
    ELSE body

\* lines 338-345
ForwardResult(requestID, usage, originalModel) ==
    [isNil |-> FALSE, RequestID |-> requestID, Usage |-> usage,
     Model |-> originalModel, Stream |-> FALSE]

\* reading the error body with no limit
CaptureWholeBody(resp) ==
    [isNil |-> FALSE, of |-> resp.bodyId, len |-> resp.readable]

\* line 293: the bytes read from the error response, whose read may break
\* off after resp.readable bytes
CaptureFailoverBody(resp) ==
    [isNil |-> FALSE, of |-> resp.bodyId, len |-> Min(resp.readable, FailoverBodyLimit)]

\* line 304
UpstreamFailoverError(resp) ==
    [kind |-> "failover", StatusCode |-> resp.status,
     ResponseBody |-> CaptureFailoverBody(resp)]

\* handleErrorResponse: writes the mapped error to the client and returns a
\* terminal error
handleErrorResponse(c, resp, out) ==
    [out EXCEPT
        !.writes = IF c.isNil THEN @
                   ELSE Append(@, [status |-> resp.status, message |-> "upstream error"]),
        !.trace = @ \o <<"write", "return">>,
        !.err = [kind |-> "terminal", StatusCode |-> resp.status]]

\* the failover path showing the upstream's status to the client
FailedStatusWritingFailover(c, resp, out) ==
    IF resp.failoverEligible THEN
        [out EXCEPT
            !.events = Append(@, ErrorEvent("failover", resp.status, resp.bodyId)),
            !.hooks = @ + 1,
            !.writes = IF c.isNil THEN @
                       ELSE Append(@, [status |-> resp.status, message |-> "upstream error"]),
            !.trace = @ \o <<"event", "hook", "write", "return">>,
            !.err = UpstreamFailoverError(resp)]
    ELSE handleErrorResponse(c, resp, out)

\* the failover path returning before the account's side effects
FailedStatusSkippingHook(c, resp, out) ==
    IF resp.failoverEligible THEN
        [out EXCEPT
            !.events = Append(@, ErrorEvent("failover", resp.status, resp.bodyId)),
            !.trace = @ \o <<"event", "return">>,
            !.err = UpstreamFailoverError(resp)]
    ELSE handleErrorResponse(c, resp, out)

\* lines 290-310: a status outside 200..299.  out holds what the call did
\* so far; resp.failoverEligible is s.shouldFailoverUpstreamError(status).
FailedStatus(c, resp, out) ==
    IF resp.failoverEligible THEN
        [out EXCEPT
            !.events = Append(@, ErrorEvent("failover", resp.status, resp.bodyId)),
            !.hooks = @ + 1,
            !.trace = @ \o <<"event", "hook", "return">>,
            !.err = UpstreamFailoverError(resp)]
    ELSE handleErrorResponse(c, resp, out)

\* the success path taking a body whose read broke off for the whole body
SucceededIgnoringReadError(account, n, resp, out) ==
    [out EXCEPT
        !.trace = @ \o <<"transform", "return">>,
        !.result = ForwardResult(resp.requestID,
                                 ParseUsage(BridgeBody(account, resp.sseHeader,
                                                       RespondTo(resp.raw, n.doc.model))),
                                 n.originalModel),
        !.body = RestoreModel(BridgeBody(account, resp.sseHeader,
                                         RespondTo(resp.raw, n.doc.model)),
                              n.originalModel, n.mappedModel)]

\* the success path handing the upstream's bytes back before it
\* transforms them
SucceededReturningEarly(account, n, resp, out) ==
    IF resp.readable < resp.size THEN
        [out EXCEPT !.trace = @ \o <<"return">>,
                    !.err = [kind |-> "read"]]
    ELSE
        [out EXCEPT
            !.trace = @ \o <<"return", "transform">>,
            !.result = ForwardResult(resp.requestID, ZeroUsage, n.originalModel),
            !.body = RespondTo(resp.raw, n.doc.model)]

\* lines 312-345: a status in 200..299
Succeeded(account, n, resp, out) ==
    IF resp.readable < resp.size THEN
        [out EXCEPT !.trace = @ \o <<"return">>,
                    !.err = [kind |-> "read"]]
    ELSE
        LET raw == RespondTo(resp.raw, n.doc.model)
            bridged == BridgeBody(account, resp.sseHeader, raw)
            usage == ParseUsage(bridged)
            final == RestoreModel(bridged, n.originalModel, n.mappedModel)
        IN  [out EXCEPT
                !.trace = @ \o <<"transform", "return">>,
                !.result = ForwardResult(resp.requestID, usage, n.originalModel),
                !.body = final]

\* the failure path writing the 502 whatever was written before
RequestFailedWritingAlways(c, safeErr, out) ==
    [out EXCEPT
        !.opsError = ErrorEvent("set", 0, safeErr),
        !.events = Append(@, ErrorEvent("request_error", 0, safeErr)),
        !.logs = Append(@, safeErr),
        !.writes = IF ~c.isNil
                   THEN Append(@, [status |-> 502, message |-> "Upstream request failed"])
                   ELSE @,
        !.trace = @ \o <<"event", "log", "write", "return">>,
        !.err = [kind |-> "transport", message |-> safeErr]]

\* lines 248-287: httpUpstream.Do returned an error, safeErr being its
\* sanitized message
RequestFailed(c, safeErr, out) ==
    [out EXCEPT
        !.opsError = ErrorEvent("set", 0, safeErr),
        !.events = Append(@, ErrorEvent("request_error", 0, safeErr)),
        !.logs = Append(@, safeErr),
        !.writes = IF ~c.isNil /\ ~c.written
                   THEN Append(@, [status |-> 502, message |-> "Upstream request failed"])
                   ELSE @,
        !.trace = @ \o <<"event", "log">>
                    \o (IF ~c.isNil /\ ~c.written THEN <<"write">> ELSE <<>>)
                    \o <<"return">>,
        !.err = [kind |-> "transport", message |-> safeErr]]

\* what the call has done before anything happened
NoEffects ==
    [result |-> NoResult, body |-> NoRespBody, err |-> NoError,
     sent |-> <<>>, writes |-> <<>>, events |-> <<>>, logs |-> <<>>,
     hooks |-> 0, opsBody |-> NoRespBody, opsError |-> NoError, trace |-> <<>>,
     marshals |-> 0]

\* forwardForCompactJSON(ctx, c, account, body, requestPath) with the
\* collaborators' answers in ext: the results (result, body, err) and the
\* effects of the call
forwardForCompactJSON(c, account, body, ext) ==
    IF ~body.valid THEN
        [NoEffects EXCEPT
            !.writes = IF c.isNil THEN <<>>
                       ELSE <<[status |-> 400, message |-> "Failed to parse request body"]>>,
            !.trace = <<"write", "return">>,
            !.err = [kind |-> "parse"]]
    ELSE
        LET n == NormalizeRequest(c, account, ext.normalize, ext.codex, body)
            out0 == [NoEffects EXCEPT !.trace = <<"normalize">>,
                                      !.marshals = IF n.bodyModified THEN 1 ELSE 0]
        IN  IF ext.tokenErr THEN
                [out0 EXCEPT !.trace = @ \o <<"return">>, !.err = [kind |-> "token"]]
            ELSE IF ext.buildErr THEN
                [out0 EXCEPT !.trace = @ \o <<"return">>, !.err = [kind |-> "build"]]
            ELSE
                LET out1 == [out0 EXCEPT
                                !.opsBody = IF c.isNil THEN NoRespBody
                                            ELSE [isNil |-> FALSE, body |-> n.body],
                                !.sent = <<[body |-> n.body, stream |-> n.reqStream,
                                            promptCacheKey |-> n.promptCacheKey]>>,
                                !.trace = @ \o <<"send">>]
                IN  IF ext.transport.failed THEN
                        RequestFailed(c, SanitizeError(ext.transport.error), out1)
                    ELSE IF ext.resp.status < 200 \/ ext.resp.status >= 300 THEN
                        FailedStatus(c, ext.resp, out1)
                    ELSE
                        Succeeded(account, n, ext.resp, out1)

----------------------------------------------------------------------------
(* Calls of forwardForCompactJSON.                                          *)

Models == {"", "m", "m2", "m3"}

IdentityMapping == [x \in Models |-> x]
\* the account maps m to m2
MapMToM2 == [IdentityMapping EXCEPT !["m"] = "m2"]

\* normalizeCodexModel: knows no model; canonicalizes m2 to m3; canonicalizes
\* m2 to m
NormalizePool ==
    {[x \in Models |-> ""],
     [IdentityMapping EXCEPT !["m2"] = "m3"],
     [IdentityMapping EXCEPT !["m2"] = "m"]}

NoCodex == [Modified |-> FALSE, NormalizedModel |-> "", PromptCacheKey |-> <<>>]
CodexPool ==
    {NoCodex, [Modified |-> TRUE, NormalizedModel |-> "m3", PromptCacheKey |-> <<107>>]}

AccountPool ==
    [Type : {AccountTypeOAuth, AccountTypeAPIKey}, mapping : {IdentityMapping, MapMToM2}]

\* the gin.Context: nil, or with the User-Agent of the Codex CLI or another
\* one, and with or without bytes already written to the client
ContextPool ==
    {[isNil |-> TRUE, codexCLI |-> FALSE, written |-> FALSE],
     [isNil |-> FALSE, codexCLI |-> FALSE, written |-> FALSE],
     [isNil |-> FALSE, codexCLI |-> TRUE, written |-> FALSE],
     [isNil |-> FALSE, codexCLI |-> FALSE, written |-> TRUE]}

RequestDoc(model, isString, stream, unsupported) ==
    [model |-> model, modelIsString |-> isString, stream |-> stream,
     cacheKey |-> <<>>, cacheKeyIsString |-> FALSE, unsupported |-> unsupported,
     input |-> NoBody.input, instructions |-> NoBody.instructions]

\* a request whose input carries a message and a compaction item the
\* service issued for "SUMMARY"
CompactedRequestDoc ==
    [RequestDoc("m", TRUE, "false", {}) EXCEPT
        !.input = [kind |-> "list", items |-> <<MessageItem, CompactionA>>]]

InvalidBody == [valid |-> FALSE, canon |-> FALSE, doc |-> RequestDoc("", FALSE, "absent", {})]

RequestBodyPool ==
    {InvalidBody,
     [valid |-> TRUE, canon |-> FALSE, doc |-> RequestDoc("m", TRUE, "absent", {})],
     [valid |-> TRUE, canon |-> TRUE, doc |-> RequestDoc("m", TRUE, "true", {})],
     [valid |-> TRUE, canon |-> TRUE, doc |-> RequestDoc("m", TRUE, "false", {})],
     [valid |-> TRUE, canon |-> FALSE, doc |-> RequestDoc("m", TRUE, "false", {})],
     [valid |-> TRUE, canon |-> TRUE,
      doc |-> RequestDoc("m2", TRUE, "other", {"previous_response_id"})],
     [valid |-> TRUE, canon |-> TRUE,
      doc |-> RequestDoc("", FALSE, "false", {"safety_identifier", "prompt_cache_retention"})],
     [valid |-> TRUE, canon |-> TRUE, doc |-> CompactedRequestDoc]}

NoUsage == [has |-> FALSE, input |-> 0, output |-> 0, cached |-> 0]
ResponseDoc(object, model, usage, outputText) ==
    [object |-> object, model |-> model, usage |-> usage, outputText |-> outputText]
EchoDoc ==
    ResponseDoc("response", "@sent",
                [has |-> TRUE, input |-> 7, output |-> 3, cached |-> 2], "text")
\* a response naming a dated snapshot of the model and carrying no usage
DatedDoc == ResponseDoc("response", "m-dated", NoUsage, "blank")
CompactionDoc == ResponseDoc("response.compaction", "@sent", NoUsage, "none")
EmptyDoc == ResponseDoc("", "", NoUsage, "none")

JsonBody(doc, marker) ==
    [kind |-> "json", marker |-> marker, doc |-> doc, finals |-> <<>>, rewritten |-> FALSE]
SseBody(finals) ==
    [kind |-> "sse", marker |-> TRUE, doc |-> EmptyDoc, finals |-> finals, rewritten |-> FALSE]

RawBodyPool ==
    {JsonBody(EchoDoc, FALSE), JsonBody(EchoDoc, TRUE), JsonBody(DatedDoc, FALSE),
     JsonBody(CompactionDoc, FALSE),
     SseBody(<<>>), SseBody(<<EchoDoc>>), SseBody(<<DatedDoc, EchoDoc>>),
     [kind |-> "text", marker |-> FALSE, doc |-> EmptyDoc, finals |-> <<>>, rewritten |-> FALSE],
     [kind |-> "empty", marker |-> FALSE, doc |-> EmptyDoc, finals |-> <<>>, rewritten |-> FALSE]}

NoResponse ==
    [status |-> 0, failoverEligible |-> FALSE, bodyId |-> "none", size |-> 0,
     readable |-> 0, requestID |-> "", sseHeader |-> FALSE,
     raw |-> SseBody(<<>>)]

\* the transport error, whose text may carry the proxy's credentials
TransportError == [text |-> "proxyconnect tcp", credentials |-> TRUE]

NoTransport == [failed |-> FALSE, error |-> [text |-> "", credentials |-> FALSE]]

NonOkStatusPool == {199, 300, 400, 429, 503}
ErrorBodySizes == {0, 10, FailoverBodyLimit, FailoverBodyLimit + 1}

\* responses with a status outside 200..299; the body read may break off
ErrorResponses ==
    {[NoResponse EXCEPT !.status = st, !.failoverEligible = fo, !.bodyId = "errbody",
                        !.size = sz, !.readable = rd, !.requestID = "req-1"] :
        st \in NonOkStatusPool, fo \in BOOLEAN, sz \in ErrorBodySizes,
        rd \in {0, 10, FailoverBodyLimit, FailoverBodyLimit + 1}}

OkResponses ==
    {[NoResponse EXCEPT !.status = st, !.bodyId = "okbody", !.size = 10,
                        !.readable = rd, !.requestID = "req-2",
                        !.sseHeader = h, !.raw = raw] :
        st \in {200, 299}, rd \in {5, 10}, h \in BOOLEAN, raw \in RawBodyPool}

ExtBase ==
    [normalize |-> [x \in Models |-> ""], codex |-> NoCodex,
     tokenErr |-> FALSE, buildErr |-> FALSE,
     transport |-> NoTransport, resp |-> NoResponse]

\* what the collaborators answer during one call
ExtPool ==
    {[ExtBase EXCEPT !.normalize = nz, !.codex = cx, !.tokenErr = TRUE] :
        nz \in NormalizePool, cx \in CodexPool}
    \cup {[ExtBase EXCEPT !.buildErr = TRUE]}
    \cup {[ExtBase EXCEPT !.transport = [failed |-> TRUE, error |-> TransportError]]}
    \cup {[ExtBase EXCEPT !.resp = r] : r \in {x \in ErrorResponses : x.readable <= x.size}}
    \cup {[ExtBase EXCEPT !.normalize = nz, !.codex = cx, !.resp = r] :
            nz \in NormalizePool, cx \in CodexPool, r \in OkResponses}

FwdInit ==
    /\ envKey = <<>>
    /\ cfgTotp = <<>>
    /\ cfgJwt = JwtSecret
    /\ now = 0
    /\ fStage = "ready"
    /\ \E c \in ContextPool, a \in AccountPool, b \in RequestBodyPool :
        fIn = [c |-> c, account |-> a, body |-> b, ext |-> ExtBase]
    /\ fOut = NoEffects
    /\ CodecIdle
    /\ ExpandIdle
    /\ FaultIdle
    /\ RestIdle

\* one call of forwardForCompactJSON
Forward(ext) ==
    /\ fStage = "ready"
    /\ (fIn.account.Type # AccountTypeOAuth => ext.codex = NoCodex)
    /\ fIn' = [fIn EXCEPT !.ext = ext]
    /\ fOut' = forwardForCompactJSON(fIn.c, fIn.account, fIn.body, ext)
    /\ fStage' = "done"
    /\ UNCHANGED <<cfgVars, codecVars, expandVars, faultVars, restVars>>

FwdNext == \E ext \in ExtPool : Forward(ext)

SpecForward == FwdInit /\ [][FwdNext]_vars

----------------------------------------------------------------------------
(* upstreamReadTracker.  The tracker holds the wrapped reader and two       *)
(* pointers, each of which may be nil (hasLast, hasBytes FALSE); the        *)
(* int64 cells they point to are lastReadAt and bytesRead.  One Read of the *)
(* wrapped reader yields a count n and an error ("none" when nil, "EOF"     *)
(* for io.EOF).                                                             *)

\* a Read that stamps lastReadAt whatever the count
ReadStampingAlways(t, n, err, clock) ==
    [trk |-> [t EXCEPT !.lastReadAt = IF t.hasLast THEN clock ELSE @,
                       !.bytesRead = IF t.hasBytes /\ n > 0 THEN @ + n ELSE @],
     n |-> n, err |-> err]

\* Read, given what t.r.Read(p) returned and the clock: the cells after the
\* call and the pair returned
Read(t, n, err, clock) ==
    [trk |-> [t EXCEPT !.lastReadAt = IF n > 0 /\ t.hasLast THEN clock ELSE @,
                       !.bytesRead = IF n > 0 /\ t.hasBytes THEN @ + n ELSE @],
     n |-> n, err |-> err]

MaxReads == 3

\* counts a wrapped reader returns: the EOF probe and two chunk sizes
ChunkSizes == {0, 3, 5}
ReadErrors == {"none", "EOF", "unexpected EOF"}

TrackInit ==
    /\ envKey = <<>>
    /\ cfgTotp = <<>>
    /\ cfgJwt = JwtSecret
    /\ now = 0
    /\ \E hl \in BOOLEAN, hb \in BOOLEAN :
        trk = [hasLast |-> hl, hasBytes |-> hb, lastReadAt |-> 0, bytesRead |-> 0]
    /\ tClock = 1
    /\ tLog = <<>>
    /\ CodecIdle
    /\ ExpandIdle
    /\ FaultIdle
    /\ FwdIdle
    /\ CompactIdle
    /\ DumpIdle
    /\ RaceIdle
    /\ LateIdle

\* one Read through the tracker; the wrapped reader returns (n, err)
TrackedRead(n, err) ==
    /\ Len(tLog) < MaxReads
    /\ LET r == Read(trk, n, err, tClock)
       IN  /\ trk' = r.trk
           /\ tLog' = Append(tLog, [n |-> n, err |-> err, at |-> tClock,
                                    retN |-> r.n, retErr |-> r.err])
    /\ tClock' = tClock + 1
    /\ UNCHANGED <<cfgVars, codecVars, expandVars, faultVars, fwdVars, compactVars,
                   dumpVars, raceVars, lateVars>>

TrackNext == \E n \in ChunkSizes, err \in ReadErrors : TrackedRead(n, err)

SpecTracker == TrackInit /\ [][TrackNext]_vars

----------------------------------------------------------------------------
(* Compact.  originalBody is [kind, canon, doc, input]: kind is "empty"     *)
(* (no bytes), "invalid" (json.Unmarshal into map[string]any fails),        *)
(* "null" (the JSON value null, which unmarshals into a nil map) or         *)
(* "object"; doc is the document as forwardForCompactJSON reads it and      *)
(* input is its "input" as extractFirstUserText reads it: [kind, items], an *)
(* item being [kind, type, role, content], content [kind, text, parts] and  *)
(* a part [kind, type, text].                                               *)
(* The result holds the five values returned (status, contentType, body,    *)
(* result, err) and what the call did: writes to the client, the effects    *)
(* of forwardForCompactJSON in fwd (forwarded tells whether it was called), *)
(* and the numbers of calls of extractAssistantOutputText,                  *)
(* encryptCompactionSummary and (marshals) json.Marshal on the request.     *)
(* json.Marshal of a decoded document and of the synthesized response       *)
(* cannot fail, so lines 64-69 and 128-134 have no outcome here.            *)

ContentTypeJSON == "application/json; charset=utf-8"

\* strings.TrimSpace(objProbe.Object) on the object tags of the documents
TrimObject(obj) ==
    IF obj = " response.compaction\n" THEN "response.compaction" ELSE obj

\* lines 77-80: the "object" of raw, "" when raw is not a JSON document
ProbeObject(raw) == IF raw.kind = "json" THEN raw.doc.object ELSE ""

\* " S1\n"
UpstreamSummary == <<32, 83, 49, 10>>

\* the "output" of a response document with the given outputText tag
OutputOf(tag) ==
    LET part(typ, text) == [type |-> typ, text |-> text]
        item(typ, role, content) == [type |-> typ, role |-> role, content |-> content]
    IN  CASE tag = "text" ->
                <<item("reasoning", "", <<part("output_text", <<82>>)>>),
                  item("message", "user", <<part("output_text", <<85>>)>>),
                  item("message", "assistant",
                       <<part("refusal", <<78>>), part("output_text", <<32, 10>>)>>),
                  item("message", "assistant",
                       <<part("output_text", UpstreamSummary),
                         part("output_text", <<90>>)>>)>>
          [] tag = "blank" ->
                <<item("message", "assistant", <<part("output_text", <<32, 9>>)>>)>>
          [] tag = "user" ->
                <<item("message", "user", <<part("output_text", <<85>>)>>)>>
          [] OTHER -> <<>>

\* the first part of type output_text with non-blank text, <<>> when none
RECURSIVE FirstOutputPart(_)
FirstOutputPart(parts) ==
    IF parts = <<>> THEN <<>>
    ELSE IF Head(parts).type = "output_text" /\ TrimSpace(Head(parts).text) # <<>>
        THEN Head(parts).text
    ELSE FirstOutputPart(Tail(parts))

RECURSIVE AssistantText(_)
AssistantText(items) ==
    IF items = <<>> THEN <<>>
    ELSE IF Head(items).type # "message" \/ Head(items).role # "assistant"
        THEN AssistantText(Tail(items))
    ELSE IF FirstOutputPart(Head(items).content) # <<>>
        THEN FirstOutputPart(Head(items).content)
    ELSE AssistantText(Tail(items))

\* extractAssistantOutputText(responseBody)
extractAssistantOutputText(raw) ==
    IF raw.kind # "json" THEN <<>> ELSE AssistantText(OutputOf(raw.doc.outputText))

\* the first part of a content list that is text and not blank, <<>> when none
RECURSIVE FirstTextPart(_)
FirstTextPart(parts) ==
    IF parts = <<>> THEN <<>>
    ELSE IF /\ Head(parts).kind = "map"
            /\ Head(parts).type \in {"input_text", "text", "output_text"}
            /\ TrimSpace(Head(parts).text) # <<>>
        THEN Head(parts).text
    ELSE FirstTextPart(Tail(parts))

RECURSIVE UserText(_)
UserText(items) ==
    IF items = <<>> THEN <<>>
    ELSE IF Head(items).kind # "map" THEN UserText(Tail(items))
    ELSE IF Head(items).type # "" /\ Head(items).type # "message"
        THEN UserText(Tail(items))
    ELSE IF Head(items).role # "user" THEN UserText(Tail(items))
    ELSE IF Head(items).content.kind = "string" THEN Head(items).content.text
    ELSE IF /\ Head(items).content.kind = "list"
            /\ FirstTextPart(Head(items).content.parts) # <<>>
        THEN FirstTextPart(Head(items).content.parts)
    ELSE UserText(Tail(items))

\* extractFirstUserText(input)
extractFirstUserText(input) ==
    IF input.kind # "list" THEN <<>> ELSE UserText(input.items)

NilUsage == [isNil |-> TRUE]

\* formatCompactUsage(usage)
formatCompactUsage(usage) ==
    IF usage = NilUsage THEN
        [input_tokens |-> 0, output_tokens |-> 0, cached_tokens |-> 0,
         reasoning_tokens |-> 0, total_tokens |-> 0]
    ELSE
        [input_tokens |-> usage.InputTokens,
         cached_tokens |-> usage.CacheReadInputTokens,
         output_tokens |-> usage.OutputTokens,
         reasoning_tokens |-> 0,
         total_tokens |-> usage.InputTokens + usage.OutputTokens]

\* lines 103-126: the synthesized response
CompactionResponse(firstUserText, encrypted, usage) ==
    [object |-> "response.compaction",
     output |-> <<[type |-> "message", status |-> "completed", role |-> "user",
                   content |-> <<[type |-> "input_text", text |-> firstUserText]>>],
                  [type |-> "compaction", encrypted_content |-> encrypted]>>,
     usage |-> formatCompactUsage(usage)]

\* what Compact has returned and done before anything happened
CompactNothing ==
    [status |-> 0, contentType |-> "", body |-> NoRespBody, result |-> NoResult,
     err |-> NoError, writes |-> <<>>, fwd |-> NoEffects, forwarded |-> FALSE,
     extracted |-> 0, encrypted |-> 0, marshals |-> 0]

\* c.JSON(status, ...) when c is not nil
ClientWrite(c, status, message) ==
    IF c.isNil THEN <<>> ELSE <<[status |-> status, message |-> message]>>

\* lines 95-137, enc being what encryptCompactionSummary returned
WrapSummary(c, firstUserText, enc, out) ==
    IF enc.err # "none" THEN
        [out EXCEPT
            !.status = 500,
            !.contentType = ContentTypeJSON,
            !.writes = @ \o ClientWrite(c, 500, "Failed to encrypt compaction result"),
            !.err = [kind |-> "encrypt compaction", message |-> enc.err]]
    ELSE
        [out EXCEPT
            !.status = 200,
            !.contentType = ContentTypeJSON,
            !.body = [kind |-> "json", marker |-> FALSE,
                      doc |-> CompactionResponse(firstUserText, enc.token,
                                                 out.fwd.result.Usage),
                      finals |-> <<>>, rewritten |-> TRUE],
            !.result = out.fwd.result]

\* the stage blaming the client for a response without a summary
SummaryStageClientError(env, totp, jwt, t, nonce, c, input, summaryText, out) ==
    IF TrimSpace(summaryText) = <<>> THEN
        [out EXCEPT
            !.status = 400,
            !.contentType = ContentTypeJSON,
            !.writes = @ \o ClientWrite(c, 400, "Upstream did not return compaction content"),
            !.err = [kind |-> "upstream did not return compaction content"]]
    ELSE
        WrapSummary(c, extractFirstUserText(input),
                    encryptCompactionSummary(env, totp, jwt, t, nonce, summaryText),
                    [out EXCEPT !.encrypted = @ + 1])

\* lines 85-137, summaryText being what extractAssistantOutputText returned
SummaryStage(env, totp, jwt, t, nonce, c, input, summaryText, out) ==
    IF TrimSpace(summaryText) = <<>> THEN
        [out EXCEPT
            !.status = 502,
            !.contentType = ContentTypeJSON,
            !.writes = @ \o ClientWrite(c, 502, "Upstream did not return compaction content"),
            !.err = [kind |-> "upstream did not return compaction content"]]
    ELSE
        WrapSummary(c, extractFirstUserText(input),
                    encryptCompactionSummary(env, totp, jwt, t, nonce, summaryText),
                    [out EXCEPT !.encrypted = @ + 1])

\* the stage without the pass-through of lines 76-83
AfterForwardAlwaysWrapping(env, totp, jwt, t, nonce, c, input, out) ==
    IF out.fwd.err.kind # "none" THEN
        [out EXCEPT !.err = out.fwd.err]
    ELSE
        SummaryStage(env, totp, jwt, t, nonce, c, input,
                     extractAssistantOutputText(out.fwd.body),
                     [out EXCEPT !.extracted = @ + 1])

\* lines 71-137: out.fwd holds what forwardForCompactJSON returned and did
AfterForward(env, totp, jwt, t, nonce, c, input, out) ==
    IF out.fwd.err.kind # "none" THEN
        [out EXCEPT !.err = out.fwd.err]
    ELSE IF TrimObject(ProbeObject(out.fwd.body)) = "response.compaction" THEN
        [out EXCEPT
            !.status = 200,
            !.contentType = ContentTypeJSON,
            !.body = out.fwd.body,
            !.result = out.fwd.result]
    ELSE
        SummaryStage(env, totp, jwt, t, nonce, c, input,
                     extractAssistantOutputText(out.fwd.body),
                     [out EXCEPT !.extracted = @ + 1])

\* the call after line 71: the request was serialized at line 63 and by
\* the invoker as often as f tells
WithForward(f) ==
    [CompactNothing EXCEPT !.fwd = f, !.forwarded = TRUE, !.writes = f.writes,
                           !.marshals = 1 + f.marshals]

\* lines 56-63: the stream flag is set and the document serialized
CompactUpstreamBody(account, doc) ==
    MarshalDoc([doc EXCEPT !.stream = IF account.Type = AccountTypeOAuth
                                      THEN "true" ELSE "false"])

\* Compact handing a body it could not parse to the invoker
CompactSkippingParse(env, totp, jwt, t, nonce, c, account, originalBody, ext) ==
    IF originalBody.kind = "empty" THEN
        [CompactNothing EXCEPT
            !.status = 400,
            !.contentType = ContentTypeJSON,
            !.writes = ClientWrite(c, 400, "Request body is empty"),
            !.err = [kind |-> "empty body"]]
    ELSE IF originalBody.kind = "null" THEN
        [CompactNothing EXCEPT !.err = [kind |-> "panic"]]
    ELSE
        AfterForward(env, totp, jwt, t, nonce, c, originalBody.input,
                     WithForward(forwardForCompactJSON(
                         c, account,
                         IF originalBody.kind = "invalid" THEN InvalidBody
                         ELSE CompactUpstreamBody(account, originalBody.doc), ext)))

\* Compact(ctx, c, account, originalBody) under the key configuration
\* (env, totp, jwt), with the clock at t, the nonce crypto/rand yields and
\* the collaborators' answers in ext
Compact(env, totp, jwt, t, nonce, c, account, originalBody, ext) ==
    IF originalBody.kind = "empty" THEN
        [CompactNothing EXCEPT
            !.status = 400,
            !.contentType = ContentTypeJSON,
            !.writes = ClientWrite(c, 400, "Request body is empty"),
            !.err = [kind |-> "empty body"]]
    ELSE IF originalBody.kind = "invalid" THEN
        [CompactNothing EXCEPT
            !.status = 400,
            !.contentType = ContentTypeJSON,
            !.writes = ClientWrite(c, 400, "Failed to parse request body"),
            !.err = [kind |-> "parse body"]]
    ELSE IF originalBody.kind = "null" THEN
        \* reqBody is a nil map: the assignment of line 58 panics
        [CompactNothing EXCEPT !.err = [kind |-> "panic"]]
    ELSE
        AfterForward(env, totp, jwt, t, nonce, c, originalBody.input,
                     WithForward(forwardForCompactJSON(
                         c, account,
                         CompactUpstreamBody(account, originalBody.doc), ext)))

----------------------------------------------------------------------------
(* Calls of Compact.                                                        *)

NoInput == [kind |-> "absent", items |-> <<>>]
NoContent == [kind |-> "other", text |-> <<>>, parts |-> <<>>]
InputItem(kind, type, role, content) ==
    [kind |-> kind, type |-> type, role |-> role, content |-> content]
TextContent(text) == [kind |-> "string", text |-> text, parts |-> <<>>]
PartsContent(parts) == [kind |-> "list", text |-> <<>>, parts |-> parts]
TextPart(kind, type, text) == [kind |-> kind, type |-> type, text |-> text]

\* "hi"
UserHi == <<104, 105>>
\* " yo "
UserYo == <<32, 121, 111, 32>>

\* a bare string, an assistant message, then two user messages
InputUserString ==
    [kind |-> "list",
     items |-> <<InputItem("other", "", "", NoContent),
                 InputItem("map", "message", "assistant", TextContent(<<65>>)),
                 InputItem("map", "message", "user", TextContent(UserHi)),
                 InputItem("map", "message", "user", TextContent(<<66>>))>>]

\* a tool output attributed to the user, a user message with nothing
\* usable, then an untyped user message whose third part is the first text
InputUserParts ==
    [kind |-> "list",
     items |-> <<InputItem("map", "function_call_output", "user", TextContent(<<70>>)),
                 InputItem("map", "message", "user",
                           PartsContent(<<TextPart("map", "input_image", <<73>>)>>)),
                 InputItem("map", "", "user",
                           PartsContent(<<TextPart("other", "", <<>>),
                                          TextPart("map", "input_text", <<32, 10>>),
                                          TextPart("map", "text", UserYo),
                                          TextPart("map", "input_text", <<90>>)>>))>>]

CompactRequest(kind, doc, input) ==
    [kind |-> kind, canon |-> FALSE, doc |-> doc, input |-> input]

CompactBodyPool ==
    {CompactRequest(k, RequestDoc("", FALSE, "absent", {}), NoInput) :
        k \in {"empty", "invalid", "null"}}
    \cup {CompactRequest("object", RequestDoc("m", TRUE, st, {}), i) :
            st \in {"absent", "true"},
            i \in {NoInput, InputUserString, InputUserParts}}

SomeUsage == [has |-> TRUE, input |-> 7, output |-> 3, cached |-> 2]
PaddedCompactionDoc == ResponseDoc(" response.compaction\n", "@sent", SomeUsage, "text")
UserOnlyDoc == ResponseDoc("response", "@sent", SomeUsage, "user")

CompactRawPool ==
    {JsonBody(EchoDoc, FALSE), JsonBody(DatedDoc, FALSE), JsonBody(UserOnlyDoc, FALSE),
     JsonBody(CompactionDoc, FALSE), JsonBody(PaddedCompactionDoc, FALSE),
     SseBody(<<DatedDoc, EchoDoc>>), SseBody(<<CompactionDoc>>),
     [kind |-> "text", marker |-> FALSE, doc |-> EmptyDoc, finals |-> <<>>,
      rewritten |-> FALSE]}

CompactExtPool ==
    {[ExtBase EXCEPT !.tokenErr = TRUE],
     [ExtBase EXCEPT !.transport = [failed |-> TRUE, error |-> TransportError]]}
    \cup {[ExtBase EXCEPT !.resp = [NoResponse EXCEPT
                !.status = 429, !.failoverEligible = fo, !.bodyId = "errbody",
                !.size = 10, !.readable = 10, !.requestID = "req-1"]] :
            fo \in BOOLEAN}
    \cup {[ExtBase EXCEPT !.resp = [NoResponse EXCEPT
                !.status = 200, !.bodyId = "okbody", !.size = 10, !.readable = rd,
                !.requestID = "req-2", !.raw = raw]] :
            rd \in {5, 10}, raw \in CompactRawPool}

\* a valid secret, an invalid override, and nothing configured
CompactKeyPool ==
    {<<<<>>, <<>>, JwtSecret>>, <<NonHex64, <<>>, JwtSecret>>, <<<<>>, <<>>, <<>>>>}

CompactInit ==
    /\ \E k \in CompactKeyPool :
        /\ envKey = k[1]
        /\ cfgTotp = k[2]
        /\ cfgJwt = k[3]
    /\ now = 0
    /\ kStage = "ready"
    /\ \E c \in ContextPool, a \in AccountPool, b \in CompactBodyPool :
        kIn = [c |-> c, account |-> a, body |-> b, ext |-> ExtBase,
               nonce |-> Rep(NonceSize, 0)]
    /\ kOut = CompactNothing
    /\ CodecIdle
    /\ ExpandIdle
    /\ FaultIdle
    /\ FwdIdle
    /\ TrackIdle
    /\ DumpIdle
    /\ RaceIdle
    /\ LateIdle

\* one call of Compact
CompactCall(ext, nonce) ==
    /\ kStage = "ready"
    /\ kIn' = [kIn EXCEPT !.ext = ext, !.nonce = nonce]
    /\ kOut' = Compact(envKey, cfgTotp, cfgJwt, now, nonce,
                       kIn.c, kIn.account, kIn.body, ext)
    /\ kStage' = "done"
    /\ UNCHANGED <<cfgVars, codecVars, expandVars, faultVars, fwdVars, trackVars,
                   dumpVars, raceVars, lateVars>>

CompactNext == \E ext \in CompactExtPool, nonce \in NoncePool : CompactCall(ext, nonce)

SpecCompact == CompactInit /\ [][CompactNext]_vars

----------------------------------------------------------------------------
(* OpsService.RecordRequestDump.  input is nil or [RequestID,               *)
(* ClientRequestID, DumpType, CreatedAtZero]; the service's collaborators   *)
(* are s.IsMonitoringEnabled(ctx), s.opsRepo (possibly nil) and the error   *)
(* of opsRepo.InsertRequestDump ("none" when nil).  The result is the error *)
(* returned, the input as the call leaves it, the record handed to the      *)
(* repository and the lines logged.                                         *)

\* "request_dump"
DefaultDumpType == <<114, 101, 113, 117, 101, 115, 116, 95, 100, 117, 109, 112>>

NilDumpInput == [isNil |-> TRUE]

\* lines 85-98: the input as normalized in place
NormalizeDumpInput(input) ==
    [input EXCEPT
        !.RequestID = TrimSpace(@),
        !.ClientRequestID = TrimSpace(@),
        !.DumpType = IF TrimSpace(@) = <<>> THEN DefaultDumpType ELSE TrimSpace(@),
        !.CreatedAtZero = FALSE]

\* lines 100-105, input being normalized already
InsertDump(input, insertErr) ==
    [err |-> insertErr, input |-> input, inserted |-> <<input>>,
     logs |-> IF insertErr # "none" THEN <<insertErr>> ELSE <<>>]

\* RecordRequestDump(ctx, input)
RecordRequestDump(input, monitoring, hasRepo, insertErr) ==
    IF input = NilDumpInput \/ ~monitoring \/ ~hasRepo THEN
        [err |-> "none", input |-> input, inserted |-> <<>>, logs |-> <<>>]
    ELSE IF TrimSpace(input.RequestID) = <<>> /\ TrimSpace(input.ClientRequestID) = <<>> THEN
        [err |-> "none",
         input |-> [input EXCEPT !.RequestID = <<>>, !.ClientRequestID = <<>>],
         inserted |-> <<>>, logs |-> <<>>]
    ELSE InsertDump(NormalizeDumpInput(input), insertErr)

\* "", " " and " r1 "
DumpIdPool == {<<>>, <<32>>, <<32, 114, 49, 32>>}
\* "" and " full\n"
DumpTypePool == {<<>>, <<32, 102, 117, 108, 108, 10>>}

DumpInputPool ==
    {NilDumpInput}
    \cup [isNil : {FALSE}, RequestID : DumpIdPool, ClientRequestID : DumpIdPool,
          DumpType : DumpTypePool, CreatedAtZero : BOOLEAN]

InsertErrors == {"none", "pq: connection refused"}

DumpInit ==
    /\ envKey = <<>>
    /\ cfgTotp = <<>>
    /\ cfgJwt = JwtSecret
    /\ now = 0
    /\ dStage = "ready"
    /\ \E i \in DumpInputPool, mon \in BOOLEAN, repo \in BOOLEAN :
        dIn = [input |-> i, monitoring |-> mon, hasRepo |-> repo, insertErr |-> "none"]
    /\ dOut = [isNil |-> TRUE]
    /\ CodecIdle
    /\ ExpandIdle
    /\ FaultIdle
    /\ FwdIdle
    /\ TrackIdle
    /\ CompactIdle
    /\ RaceIdle
    /\ LateIdle

\* one call of RecordRequestDump; the repository answers insertErr
DumpCall(insertErr) ==
    /\ dStage = "ready"
    /\ dIn' = [dIn EXCEPT !.insertErr = insertErr]
    /\ dOut' = RecordRequestDump(dIn.input, dIn.monitoring, dIn.hasRepo, insertErr)
    /\ dStage' = "done"
    /\ UNCHANGED <<cfgVars, codecVars, expandVars, faultVars, fwdVars, trackVars,
                   compactVars, raceVars, lateVars>>

DumpNext == \E e \in InsertErrors : DumpCall(e)

SpecDump == DumpInit /\ [][DumpNext]_vars

----------------------------------------------------------------------------
(* SetOpsStreamFault called by two goroutines on one gin.Context.  c.Get    *)
(* and c.Set each take the context's lock and are single steps; nothing     *)
(* holds the lock from the one to the other.  A goroutine is at "check"     *)
(* (before line 42), at "store" (line 42 found nothing; lines 46-65 are to  *)
(* run) or "done".                                                          *)

Detectors == {"idle-timeout", "client-disconnect"}

\* line 42: c.Get finds a fault
FaultExists(stored) == stored.set

\* lines 39-44 by goroutine d
RaceCheck(d) ==
    /\ rPc[d] = "check"
    /\ rPc' = [rPc EXCEPT ![d] = IF FaultExists(rCtx) THEN "done" ELSE "store"]
    /\ UNCHANGED <<rCtx, rArg, rWrites>>
    /\ UNCHANGED <<cfgVars, codecVars, expandVars, faultVars, fwdVars, trackVars,
                   compactVars, dumpVars, lateVars>>

\* lines 46-65 by goroutine d
RaceStore(d) ==
    /\ rPc[d] = "store"
    /\ rCtx' = [set |-> TRUE, fault |-> NormalizeFault(rArg[d])]
    /\ rWrites' = Append(rWrites, d)
    /\ rPc' = [rPc EXCEPT ![d] = "done"]
    /\ UNCHANGED rArg
    /\ UNCHANGED <<cfgVars, codecVars, expandVars, faultVars, fwdVars, trackVars,
                   compactVars, dumpVars, lateVars>>

RaceFaultPool ==
    [Phase : PhasePool, Type : {<<>>}, StatusCode : {0, 502},
     Message : MessagePool, Detail : {<<>>}, Owner : OwnerPool, Source : {<<>>}]

RaceInit ==
    /\ envKey = <<>>
    /\ cfgTotp = <<>>
    /\ cfgJwt = JwtSecret
    /\ now = 0
    /\ rCtx = NoFault
    /\ rPc = [d \in Detectors |-> "check"]
    /\ rArg \in [Detectors -> RaceFaultPool]
    /\ rWrites = <<>>
    /\ CodecIdle
    /\ ExpandIdle
    /\ FaultIdle
    /\ FwdIdle
    /\ TrackIdle
    /\ CompactIdle
    /\ DumpIdle
    /\ LateIdle

RaceNext == \E d \in Detectors : RaceCheck(d) \/ RaceStore(d)

SpecFaultRace == RaceInit /\ [][RaceNext]_vars

----------------------------------------------------------------------------
(* One request retried over accounts.  The handler calls Compact; on an     *)
(* UpstreamFailoverError it selects another account and calls Compact       *)
(* again with the same gin.Context, and any other outcome ends the          *)
(* sequence.  yWrites holds what Compact and forwardForCompactJSON wrote to *)
(* the client response during the attempts.                                 *)

MaxAttempts == 3

RetryInit ==
    /\ envKey = <<>>
    /\ cfgTotp = <<>>
    /\ cfgJwt = JwtSecret
    /\ now = 0
    /\ kStage = "ready"
    /\ \E c \in {x \in ContextPool : ~x.written}, a \in AccountPool,
          b \in CompactBodyPool :
        kIn = [c |-> c, account |-> a, body |-> b, ext |-> ExtBase,
               nonce |-> Rep(NonceSize, 0)]
    /\ kOut = CompactNothing
    /\ yLog = <<>>
    /\ yWrites = <<>>
    /\ CodecIdle
    /\ ExpandIdle
    /\ FaultIdle
    /\ FwdIdle
    /\ TrackIdle
    /\ DumpIdle
    /\ RaceIdle
    /\ WatchIdle

\* what the handler does with the outcome r of an attempt
RetryStep(ext, next, r) ==
    /\ kOut' = r
    /\ yLog' = Append(yLog, [kind |-> r.err.kind, writes |-> Len(r.writes)])
    /\ yWrites' = yWrites \o r.writes
    /\ kStage' = IF r.err.kind = "failover" THEN "ready" ELSE "done"
    /\ kIn' = [kIn EXCEPT !.ext = ext,
                          !.account = IF r.err.kind = "failover" THEN next ELSE @]

\* one attempt: Compact on the account selected, next being the account
\* selected if this one fails over
RetryAttempt(ext, next) ==
    /\ kStage = "ready"
    /\ Len(yLog) < MaxAttempts
    /\ next # kIn.account
    /\ RetryStep(ext, next,
                 Compact(envKey, cfgTotp, cfgJwt, now, kIn.nonce,
                         [kIn.c EXCEPT !.written = yWrites # <<>>],
                         kIn.account, kIn.body, ext))
    /\ UNCHANGED <<cfgVars, codecVars, expandVars, faultVars, fwdVars, trackVars,
                   dumpVars, raceVars, watchVars>>

RetryNext == \E ext \in CompactExtPool, next \in AccountPool : RetryAttempt(ext, next)

SpecRetry == RetryInit /\ [][RetryNext]_vars

----------------------------------------------------------------------------
(* upstreamReadTracker read by one task while a watchdog loads its cells.   *)
(* A Read is four steps: the wrapped reader's Read, atomic.StoreInt64 on    *)
(* lastReadAt, atomic.AddInt64 on bytesRead, and the return; each atomic    *)
(* operation is one step, and the watchdog's atomic loads fall between any  *)
(* two of them.                                                             *)

MaxWatchedReads == 2
MaxLoads == 2

\* counts and errors the wrapped reader returns here
WatchedChunks == {0, 3}
WatchedErrors == {"none", "EOF"}

WatchInit ==
    /\ envKey = <<>>
    /\ cfgTotp = <<>>
    /\ cfgJwt = JwtSecret
    /\ now = 0
    /\ \E hl \in BOOLEAN, hb \in BOOLEAN :
        trk = [hasLast |-> hl, hasBytes |-> hb, lastReadAt |-> 0, bytesRead |-> 0]
    /\ tClock = 1
    /\ tLog = <<>>
    /\ WatchIdle
    /\ CodecIdle
    /\ ExpandIdle
    /\ FaultIdle
    /\ FwdIdle
    /\ CompactIdle
    /\ DumpIdle
    /\ RaceIdle
    /\ RetryIdle

\* a Read that returns what the wrapped reader gave without touching the
\* cells
ReadInnerReturningEarly(n, err) ==
    /\ wPc = "idle"
    /\ Len(tLog) < MaxWatchedReads
    /\ wPending' = [n |-> n, err |-> err, at |-> tClock]
    /\ wInner' = wInner + n
    /\ wPc' = "return"
    /\ UNCHANGED <<trackVars, wSeen>>
    /\ UNCHANGED <<cfgVars, codecVars, expandVars, faultVars, fwdVars, compactVars,
                   dumpVars, raceVars, retryVars>>

\* line 19: n, err := t.r.Read(p), and the test n > 0 of line 20
ReadInner(n, err) ==
    /\ wPc = "idle"
    /\ Len(tLog) < MaxWatchedReads
    /\ wPending' = [n |-> n, err |-> err, at |-> tClock]
    /\ wInner' = wInner + n
    /\ wPc' = IF n > 0 THEN "store" ELSE "return"
    /\ UNCHANGED <<trackVars, wSeen>>
    /\ UNCHANGED <<cfgVars, codecVars, expandVars, faultVars, fwdVars, compactVars,
                   dumpVars, raceVars, retryVars>>

\* lines 21-23: atomic.StoreInt64(t.lastReadAt, time.Now().UnixNano())
ReadStore ==
    /\ wPc = "store"
    /\ trk' = [trk EXCEPT !.lastReadAt = IF trk.hasLast THEN tClock ELSE @]
    /\ wPending' = [wPending EXCEPT !.at = tClock]
    /\ tClock' = tClock + 1
    /\ wPc' = "add"
    /\ UNCHANGED <<tLog, wInner, wSeen>>
    /\ UNCHANGED <<cfgVars, codecVars, expandVars, faultVars, fwdVars, compactVars,
                   dumpVars, raceVars, retryVars>>

\* lines 24-26: atomic.AddInt64(t.bytesRead, int64(n))
ReadAdd ==
    /\ wPc = "add"
    /\ trk' = [trk EXCEPT !.bytesRead = IF trk.hasBytes THEN @ + wPending.n ELSE @]
    /\ wPc' = "return"
    /\ UNCHANGED <<tClock, tLog, wPending, wInner, wSeen>>
    /\ UNCHANGED <<cfgVars, codecVars, expandVars, faultVars, fwdVars, compactVars,
                   dumpVars, raceVars, retryVars>>

\* line 28: return n, err
ReadReturn ==
    /\ wPc = "return"
    /\ tLog' = Append(tLog, [n |-> wPending.n, err |-> wPending.err, at |-> wPending.at,
                             retN |-> wPending.n, retErr |-> wPending.err])
    /\ wPending' = NoPending
    /\ wPc' = "idle"
    /\ UNCHANGED <<trk, tClock, wInner, wSeen>>
    /\ UNCHANGED <<cfgVars, codecVars, expandVars, faultVars, fwdVars, compactVars,
                   dumpVars, raceVars, retryVars>>

\* the watchdog's atomic load of one cell; with the value it keeps, for the
\* record, what the wrapped reader had returned and which Reads had
\* completed at that moment
WatchdogLoad(cell) ==
    /\ Len(wSeen) < MaxLoads
    /\ wSeen' = Append(wSeen,
                       [cell |-> cell,
                        value |-> IF cell = "bytesRead" THEN trk.bytesRead
                                  ELSE trk.lastReadAt,
                        inner |-> wInner,
                        completed |-> tLog])
    /\ UNCHANGED <<trackVars, wPc, wPending, wInner>>
    /\ UNCHANGED <<cfgVars, codecVars, expandVars, faultVars, fwdVars, compactVars,
                   dumpVars, raceVars, retryVars>>

WatchNext ==
    \/ \E n \in WatchedChunks, err \in WatchedErrors : ReadInner(n, err)
    \/ ReadStore
    \/ ReadAdd
    \/ ReadReturn
    \/ \E cell \in {"bytesRead", "lastReadAt"} : WatchdogLoad(cell)

SpecWatch == WatchInit /\ [][WatchNext]_vars

----------------------------------------------------------------------------
(* Claims about the codec, checked under SpecCodec.                         *)

CurCfg == <<envKey, cfgTotp, cfgJwt>>
ServiceToken == cStage # "idle" /\ cEncErr = "none"
MalformedKeys == {NonHex64, Short63}
\* the first source that is set holds a malformed key
BadKeyConfig(cfg) ==
    \/ cfg[1] \in MalformedKeys
    \/ cfg[1] = <<>> /\ cfg[2] \in MalformedKeys
HasConfiguredKey(cfg) == cfg[2] # <<>> \/ cfg[3] # <<>>

\* C1: with a key from the environment override, the TOTP key or the JWT
\* secret that is the same at both calls, encrypting a summary succeeds and
\* decrypting the untouched token succeeds and returns exactly the
\* whitespace-trimmed summary.
C1_RoundTrip ==
    /\ (cStage # "idle" /\ cEncErr # "foreign" /\ ~BadKeyConfig(cEncCfg))
            => cEncErr = "none"
    /\ (/\ cStage = "decrypted"
        /\ ServiceToken
        /\ ~cTampered
        /\ CurCfg = cEncCfg
        /\ KeySource(envKey, cfgTotp, cfgJwt) # "ephemeral")
            => /\ cDecErr = "none"
               /\ cDecOut = TrimSpace(cSummary)

C1_Witness ==
    /\ cStage = "decrypted"
    /\ ServiceToken
    /\ ~cTampered
    /\ CurCfg = cEncCfg
    /\ KeySource(envKey, cfgTotp, cfgJwt) = "jwt"
    /\ cSummary = <<32, 83, 49, 10>>
    /\ cDecErr = "none"
    /\ cDecOut = <<83, 49>>

\* C2: a token produced by Encrypt with one byte of its nonce or ciphertext
\* changed makes Decrypt (under the key it was sealed with) return an error;
\* whenever Decrypt succeeds on a token of the service the result is the
\* trimmed summary that was encrypted.
C2_TamperDetected ==
    (cStage = "decrypted" /\ ServiceToken /\ CurCfg = cEncCfg)
        => /\ cTampered => cDecErr # "none"
           /\ cDecErr = "none" => cDecOut = TrimSpace(cSummary)

C2_Witness ==
    /\ cStage = "decrypted"
    /\ ServiceToken
    /\ cTampered
    /\ cDecKey = cEncKey
    /\ cSummary = <<97, 32, 98>>
    /\ cDecErr = "cipher: message authentication failed"

\* C3: the key source is the first set one in the order environment
\* override, TOTP key, SHA-256 of the JWT secret, ephemeral.  With a valid
\* override and a configured key both present the token is sealed under the
\* override's key: a service that has only the configured key fails to
\* decrypt it, and a token sealed with only the configured key fails to
\* decrypt once the override is present.
C3_EnvOverrideWins ==
    /\ ServiceToken =>
        /\ cEncCfg[1] # <<>> => cEncKey = parse32ByteKey(cEncCfg[1]).key
        /\ (cEncCfg[1] = <<>> /\ cEncCfg[2] # <<>>)
                => cEncKey = parse32ByteKey(cEncCfg[2]).key
        /\ (cEncCfg[1] = <<>> /\ cEncCfg[2] = <<>> /\ cEncCfg[3] # <<>>)
                => cEncKey = Sha256(TrimSpace(cEncCfg[3]))
    /\ (/\ cStage = "decrypted"
        /\ ServiceToken
        /\ ~cTampered
        /\ HasConfiguredKey(cEncCfg)
        /\ cEncCfg[2] = cfgTotp
        /\ cEncCfg[3] = cfgJwt
        /\ \/ cEncCfg[1] = B64KeyEnv /\ envKey = <<>>
           \/ cEncCfg[1] = <<>> /\ envKey = B64KeyEnv)
            => cDecErr # "none"

C3_Witness ==
    /\ cStage = "decrypted"
    /\ ServiceToken
    /\ cEncCfg = <<B64KeyEnv, HexKeyTotp, JwtSecret>>
    /\ CurCfg = <<<<>>, HexKeyTotp, JwtSecret>>
    /\ cEncKey = Rep(KeyBytes, 0)
    /\ cDecKey = Rep(KeyBytes, 17)
    /\ cDecErr = "cipher: message authentication failed"

\* C4: when the first key source that is set is malformed (the override, or
\* the TOTP key when no override is set), Encrypt and Decrypt both fail with
\* the key error and produce nothing, even when a lower-priority source
\* holds a valid key.
C4_MalformedKeyFails ==
    /\ (cStage # "idle" /\ cEncErr # "foreign" /\ BadKeyConfig(cEncCfg))
            => /\ cEncErr \in {"invalid SUB2API_COMPACTION_KEY",
                               "invalid totp.encryption_key"}
               /\ cToken = <<>>
               /\ cEncKey = <<>>
    /\ (cStage = "decrypted" /\ BadKeyConfig(CurCfg))
            => /\ cDecErr \in {"invalid SUB2API_COMPACTION_KEY",
                               "invalid totp.encryption_key"}
               /\ cDecOut = <<>>
               /\ cDecKey = <<>>

C4_Witness ==
    /\ cStage = "decrypted"
    /\ cEncCfg = <<NonHex64, HexKeyTotp, JwtSecret>>
    /\ cEncErr = "invalid SUB2API_COMPACTION_KEY"
    /\ CurCfg = <<<<>>, Short63, JwtSecret>>
    /\ cDecErr = "invalid totp.encryption_key"

----------------------------------------------------------------------------
(* Claims about the expansion, checked under SpecExpand.                    *)

IsCompactionItem(item) == item.kind = "map" /\ IsCompactionType(item.type)

\* the items of a list that are not compaction items, in order
RECURSIVE KeptItems(_)
KeptItems(items) ==
    IF items = <<>> THEN <<>>
    ELSE IF IsCompactionItem(Head(items)) THEN KeptItems(Tail(items))
    ELSE <<Head(items)>> \o KeptItems(Tail(items))

\* the non-empty trimmed summaries the compaction items were made from, in
\* order
RECURSIVE SealedSummaries(_)
SealedSummaries(items) ==
    IF items = <<>> THEN <<>>
    ELSE IF IsCompactionItem(Head(items)) /\ TrimSpace(Head(items).plain.text) # <<>>
        THEN <<TrimSpace(Head(items).plain.text)>> \o SealedSummaries(Tail(items))
    ELSE SealedSummaries(Tail(items))

\* some compaction item has no usable encrypted_content
HasUnusableItem(body) ==
    /\ body.input.kind = "list"
    /\ \E i \in 1..Len(body.input.items) :
        /\ IsCompactionItem(body.input.items[i])
        /\ ~body.input.items[i].plain.ok

\* C7: when some compaction item of the input has a missing or blank
\* encrypted_content or a token that does not decrypt, the call returns an
\* error with changed = false and leaves input and instructions as they
\* were, also when earlier compaction items decrypted.
C7_NoPartialMutation ==
    (xCalls > 0 /\ HasUnusableItem(xPrev))
        => /\ xErr # "none"
           /\ xChanged = FALSE
           /\ xBody = xPrev

C7_Witness ==
    /\ xCalls = 1
    /\ xPrev.input.items = <<MessageItem, CompactionA, CompactionForeign>>
    /\ xPrev.instructions.kind = "string"
    /\ xErr = "invalid compaction encrypted_content"
    /\ xBody = xPrev

\* C8: after an expansion that returned changed = true, instructions is the
\* trimmed former instructions (if any), a blank line, and the block: the
\* header followed by the summaries in the order of their compaction items,
\* joined by a blank line; the input is the former non-compaction items in
\* their order.  An expansion that returned no error and changed = false
\* left the input as it was.
C8_ExpansionOrder ==
    /\ (xCalls > 0 /\ xErr = "none" /\ xChanged)
        => LET block == SummaryHeader \o Join(SealedSummaries(xPrev.input.items), BlankLine)
               before == IF xPrev.instructions.kind = "string"
                         THEN TrimSpace(xPrev.instructions.text) ELSE <<>>
           IN  /\ SealedSummaries(xPrev.input.items) # <<>>
               /\ xBody.instructions.kind = "string"
               /\ xBody.instructions.text =
                    IF before = <<>> THEN block ELSE before \o BlankLine \o block
               /\ xBody.input.kind = "list"
               /\ xBody.input.items = KeptItems(xPrev.input.items)
    /\ (xCalls > 0 /\ xErr = "none" /\ ~xChanged) => xBody.input = xPrev.input

C8_Witness ==
    /\ xCalls = 1
    /\ xChanged
    /\ xPrev.input.items = <<CompactionB, CompactionA, MessageItem>>
    /\ xPrev.instructions.text = <<32, 98, 97, 115, 101, 10>>
    /\ xBody.input.items = <<MessageItem>>
    /\ xBody.instructions.text =
            <<98, 97, 115, 101>> \o BlankLine \o SummaryHeader
                \o <<97, 32, 98>> \o BlankLine \o SummaryText

\* C9: a second expansion of the document a first, error-free expansion
\* produced returns changed = false and no error and leaves input and
\* instructions as the first pass left them.
C9_SecondPassNoOp ==
    (xCalls = 2 /\ xFirst \in {"changed", "unchanged"})
        => /\ xChanged = FALSE
           /\ xErr = "none"
           /\ xBody = xPrev

C9_Witness ==
    /\ xCalls = 2
    /\ xFirst = "changed"
    /\ xOrig.input.items = <<CompactionA, StringItem>>
    /\ xChanged = FALSE
    /\ xBody = xPrev
    /\ xBody.input.items = <<StringItem>>
    /\ xBody.instructions.text = SummaryHeader \o SummaryText

----------------------------------------------------------------------------
(* Claims about SetOpsStreamFault, checked under SpecFault.                 *)

\* C6: after any sequence of calls on one context a fault is stored exactly
\* when some call had a non-nil context, and the stored fault is the
\* normalized fault of the first such call: later calls do not change it.
C6_FirstWriteWins ==
    /\ ctxFault.set = firstFault.set
    /\ ctxFault.set => ctxFault.fault = NormalizeFault(firstFault.fault)

\* a third call, with another fault, after the first one stored " Upstream "
C6_Witness ==
    /\ faultCalls = 3
    /\ ~lastCtxNil
    /\ lastFault.fault.Phase = <<110, 101, 116, 119, 111, 114, 107>>
    /\ lastFault.fault.StatusCode = 502
    /\ firstFault.set
    /\ firstFault.fault.Phase = <<32, 85, 112, 115, 116, 114, 101, 97, 109, 32>>
    /\ firstFault.fault.StatusCode = 0
    /\ ctxFault.set
    /\ ctxFault.fault.Phase = <<117, 112, 115, 116, 114, 101, 97, 109>>
    /\ ctxFault.fault.StatusCode = 499

----------------------------------------------------------------------------
(* Claims about forwardForCompactJSON, checked under SpecForward.           *)

\* the call got a response from the upstream
GotResponse ==
    /\ fStage = "done"
    /\ fIn.body.valid
    /\ ~fIn.ext.tokenErr
    /\ ~fIn.ext.buildErr
    /\ ~fIn.ext.transport.failed

\* C5: for an upstream status outside 200..299 no ForwardResult and no body
\* is returned.  If shouldFailoverUpstreamError holds for the status, the
\* error is an UpstreamFailoverError with exactly that status whose
\* ResponseBody is the leading part of the upstream body, at most 2 MiB of
\* it and all of it up to 2 MiB when the read does not break off;
\* otherwise the error is the terminal error of the error-mapping path.
C5_FailoverClassification ==
    (GotResponse /\ (fIn.ext.resp.status < 200 \/ fIn.ext.resp.status > 299))
        => /\ fOut.result = NoResult
           /\ fOut.body = NoRespBody
           /\ fIn.ext.resp.failoverEligible =>
                /\ fOut.err.kind = "failover"
                /\ fOut.err.StatusCode = fIn.ext.resp.status
                /\ fOut.err.ResponseBody.of = fIn.ext.resp.bodyId
                /\ fOut.err.ResponseBody.len <= 2 * 1024 * 1024
                /\ fOut.err.ResponseBody.len <= fIn.ext.resp.size
                /\ fIn.ext.resp.readable = fIn.ext.resp.size =>
                      \/ fOut.err.ResponseBody.len = fIn.ext.resp.size
                      \/ fOut.err.ResponseBody.len = 2 * 1024 * 1024
           /\ ~fIn.ext.resp.failoverEligible =>
                /\ fOut.err.kind = "terminal"
                /\ fOut.err.StatusCode = fIn.ext.resp.status

\* a 429 with a body one byte over the limit
C5_Witness ==
    /\ GotResponse
    /\ fIn.ext.resp.status = 429
    /\ fIn.ext.resp.failoverEligible
    /\ fIn.ext.resp.size = 2097153
    /\ fIn.ext.resp.readable = 2097153
    /\ fOut.err.kind = "failover"
    /\ fOut.err.StatusCode = 429
    /\ fOut.err.ResponseBody.len = 2097152
    /\ fOut.hooks = 1

\* the model id the upstream is to see for a request naming m on an
\* account mapping m to m2
NormalizedM2 ==
    IF fIn.account.Type = AccountTypeOAuth /\ fIn.ext.codex.NormalizedModel # ""
    THEN fIn.ext.codex.NormalizedModel
    ELSE IF fIn.ext.normalize["m2"] # "" THEN fIn.ext.normalize["m2"]
    ELSE "m2"

\* the response document the caller is to get: the document itself, or for
\* an OAuth account the last completed response of an event stream
AnsweredDoc ==
    LET raw == fIn.ext.resp.raw
    IN  IF raw.kind = "sse" /\ raw.finals # <<>> /\ fIn.account.Type = AccountTypeOAuth
        THEN raw.finals[Len(raw.finals)]
        ELSE raw.doc

\* C10: for a request with model m on an account mapping m to m2, the body
\* sent upstream carries m2 after id normalization; when the call succeeds
\* ForwardResult.Model is m, and a JSON body returned to the caller reports
\* m wherever the upstream echoed the model it was sent.
C10_ModelMappedAndRestored ==
    (/\ fStage = "done"
     /\ fIn.body.valid
     /\ fIn.body.doc.modelIsString
     /\ fIn.body.doc.model = "m"
     /\ fIn.account.mapping["m"] = "m2")
        => /\ Len(fOut.sent) <= 1
           /\ \A i \in 1..Len(fOut.sent) :
                /\ fOut.sent[i].body.doc.modelIsString
                /\ fOut.sent[i].body.doc.model = NormalizedM2
           /\ fOut.err.kind = "none" =>
                /\ fOut.result.Model = "m"
                /\ (fOut.body.kind = "json" /\ AnsweredDoc.model = "@sent")
                        => fOut.body.doc.model = "m"

C10_Witness ==
    /\ fStage = "done"
    /\ fIn.body.doc.model = "m"
    /\ fIn.account.Type = AccountTypeOAuth
    /\ fIn.account.mapping["m"] = "m2"
    /\ fIn.ext.normalize["m2"] = "m3"
    /\ fIn.ext.codex = NoCodex
    /\ fIn.ext.resp.raw = SseBody(<<DatedDoc, EchoDoc>>)
    /\ fOut.err.kind = "none"
    /\ fOut.sent[1].body.doc.model = "m3"
    /\ fOut.sent[1].body.canon
    /\ fOut.result.Model = "m"
    /\ fOut.body.doc.model = "m"
    /\ fOut.body.rewritten

----------------------------------------------------------------------------
(* Claims about upstreamReadTracker.                                        *)

RECURSIVE SumReturned(_)
SumReturned(log) ==
    IF log = <<>> THEN 0 ELSE log[1].retN + SumReturned(Tail(log))

\* the clock value of the latest Read that returned a positive count, 0
\* (the initial content of the cell) when there is none
RECURSIVE LastPositiveAt(_)
LastPositiveAt(log) ==
    IF log = <<>> THEN 0
    ELSE IF log[Len(log)].retN > 0 THEN log[Len(log)].at
    ELSE LastPositiveAt(SubSeq(log, 1, Len(log) - 1))

\* C11: over any sequence of reads through the tracker, lastReadAt holds
\* the time of the latest read that returned n > 0 (reads returning 0 never
\* store it), bytesRead is the sum of all returned n, and every Read returns
\* exactly the (n, err) the wrapped reader returned, end-of-stream included.
C11_TrackerAccounting ==
    /\ \A i \in 1..Len(tLog) :
        tLog[i].retN = tLog[i].n /\ tLog[i].retErr = tLog[i].err
    /\ trk.hasBytes => trk.bytesRead = SumReturned(tLog)
    /\ trk.hasLast => trk.lastReadAt = LastPositiveAt(tLog)
    /\ ~trk.hasBytes => trk.bytesRead = 0
    /\ ~trk.hasLast => trk.lastReadAt = 0

\* chunks of 5, 0 with end-of-stream, and 3: two stamps, 8 bytes
C11_Witness ==
    /\ trk.hasLast
    /\ trk.hasBytes
    /\ Len(tLog) = 3
    /\ tLog[1].n = 5 /\ tLog[1].err = "none"
    /\ tLog[2].n = 0 /\ tLog[2].retErr = "EOF"
    /\ tLog[3].n = 3
    /\ trk.bytesRead = 8
    /\ trk.lastReadAt = tLog[3].at

----------------------------------------------------------------------------
(* Claims about Compact, checked under SpecCompact.                         *)

\* C12: Compact called with an empty body, or with a body that does not
\* parse as a JSON document, returns status 400 with an error and nothing
\* else, having made no call of the invoker (so no token was fetched and
\* nothing was sent upstream) and no encryption.
C12_BadBodyRejected ==
    (kStage = "done" /\ kIn.body.kind \in {"empty", "invalid"})
        => /\ kOut.status = 400
           /\ kOut.err.kind # "none"
           /\ kOut.body = NoRespBody
           /\ kOut.result = NoResult
           /\ ~kOut.forwarded
           /\ kOut.fwd = NoEffects
           /\ kOut.encrypted = 0
           /\ kOut.extracted = 0
           /\ \A i \in 1..Len(kOut.writes) : kOut.writes[i].status = 400

C12_Witness ==
    /\ kStage = "done"
    /\ kIn.body.kind = "invalid"
    /\ ~kIn.c.isNil
    /\ kIn.ext.resp.status = 200
    /\ kOut.status = 400
    /\ kOut.writes = <<[status |-> 400, message |-> "Failed to parse request body"]>>
    /\ ~kOut.forwarded

\* the invoker returned without error a JSON body whose object is
\* response.compaction
InvokerGaveCompaction ==
    /\ kStage = "done"
    /\ kOut.forwarded
    /\ kOut.fwd.err.kind = "none"
    /\ kOut.fwd.body.kind = "json"
    /\ kOut.fwd.body.doc.object \in {"response.compaction", " response.compaction\n"}

\* C13: when the body the invoker returned has object response.compaction,
\* Compact returns that body itself with status 200 and the invoker's
\* ForwardResult, without extracting a summary and without encrypting.
C13_CompactionPassedThrough ==
    InvokerGaveCompaction
        => /\ kOut.status = 200
           /\ kOut.err.kind = "none"
           /\ kOut.body = kOut.fwd.body
           /\ kOut.result = kOut.fwd.result
           /\ ~kOut.result.isNil
           /\ kOut.extracted = 0
           /\ kOut.encrypted = 0

C13_Witness ==
    /\ InvokerGaveCompaction
    /\ kIn.account.Type = AccountTypeAPIKey
    /\ kIn.ext.resp.raw = JsonBody(PaddedCompactionDoc, FALSE)
    /\ kOut.status = 200
    /\ kOut.body.doc.object = " response.compaction\n"
    /\ kOut.body.doc.outputText = "text"
    /\ ~kOut.body.rewritten

\* the invoker returned without error a body that is no compaction object
\* and has no assistant output_text other than blank ones
InvokerGaveNoSummary ==
    /\ kStage = "done"
    /\ kOut.forwarded
    /\ kOut.fwd.err.kind = "none"
    /\ ~InvokerGaveCompaction
    /\ \/ kOut.fwd.body.kind # "json"
       \/ kOut.fwd.body.doc.outputText \in {"blank", "user", "none"}

\* C14: when the upstream call succeeds but the response is no compaction
\* object and holds no non-blank assistant output_text, Compact returns
\* status 502 (and writes 502, never a 4xx, to the client) with an error
\* that is not an UpstreamFailoverError, and no body or result.
C14_MissingSummaryIsGatewayError ==
    InvokerGaveNoSummary
        => /\ kOut.status = 502
           /\ kOut.err.kind \notin {"none", "failover"}
           /\ kOut.body = NoRespBody
           /\ kOut.result = NoResult
           /\ kOut.encrypted = 0
           /\ kOut.writes = ClientWrite(kIn.c, 502,
                                        "Upstream did not return compaction content")

C14_Witness ==
    /\ InvokerGaveNoSummary
    /\ ~kIn.c.isNil
    /\ kIn.ext.resp.raw = JsonBody(DatedDoc, FALSE)
    /\ kOut.status = 502
    /\ Len(kOut.writes) = 1
    /\ kOut.writes[1].status = 502
    /\ kOut.extracted = 1

\* Compact took the wrapping path and returned the synthesized response
Wrapped == kStage = "done" /\ kOut.err.kind = "none" /\ kOut.encrypted = 1

\* the synthesized response but for what its token opens to
WrappedShape ==
    /\ kOut.status = 200
    /\ kOut.body.doc.object = "response.compaction"
    /\ Len(kOut.body.doc.output) = 2
    /\ kOut.body.doc.output[1].type = "message"
    /\ kOut.body.doc.output[1].role = "user"
    /\ kOut.body.doc.output[1].content =
            <<[type |-> "input_text", text |-> extractFirstUserText(kIn.body.input)]>>
    /\ kOut.body.doc.output[2].type = "compaction"
    /\ kOut.result = kOut.fwd.result
    /\ kOut.body.doc.usage.input_tokens = kOut.result.Usage.InputTokens
    /\ kOut.body.doc.usage.output_tokens = kOut.result.Usage.OutputTokens
    /\ kOut.body.doc.usage.cached_tokens = kOut.result.Usage.CacheReadInputTokens
    /\ kOut.body.doc.usage.total_tokens =
            kOut.result.Usage.InputTokens + kOut.result.Usage.OutputTokens

\* the service, its key configuration unchanged, opens the token at clock
\* reading t and obtains the trimmed upstream summary
WrappedTokenOpensAt(t) ==
    decryptCompactionSummary(envKey, cfgTotp, cfgJwt, t,
                             kOut.body.doc.output[2].encrypted_content)
        = [err |-> "none", text |-> TrimSpace(UpstreamSummary)]

\* C15: in the wrapping path the synthesized response has object
\* response.compaction, a user message echoing the first user text of the
\* request, a compaction item whose encrypted_content decrypts under the
\* same key configuration, whenever it is presented, to the trimmed
\* upstream summary, and a usage object equal to the ForwardResult's counts
\* with total_tokens = input_tokens + output_tokens.
C15_WrappedResponse ==
    Wrapped => /\ WrappedShape
               /\ \A t \in now..MaxClock : WrappedTokenOpensAt(t)

----------------------------------------------------------------------------
(* Claims about RecordRequestDump, checked under SpecDump.                  *)

\* the repository was asked to insert and failed
InsertFailed == dStage = "done" /\ dOut.inserted # <<>> /\ dIn.insertErr # "none"

\* C16: RecordRequestDump never propagates a failure of the telemetry sink:
\* when the repository insert fails, the failure is logged and the call
\* returns no error.
C16_SinkFailureNotPropagated ==
    InsertFailed => dOut.logs # <<>> /\ dOut.err = "none"

----------------------------------------------------------------------------
(* Further claims about forwardForCompactJSON, checked under SpecForward.   *)

\* the call succeeded on an upstream body that is one JSON document without
\* "data:" or "event:" in it, and the model id sent upstream is the one the
\* request named
PlainJsonAnswer ==
    /\ fStage = "done"
    /\ fOut.err.kind = "none"
    /\ fIn.ext.resp.raw.kind = "json"
    /\ ~fIn.ext.resp.raw.marker
    /\ fOut.sent[1].body.doc.model = fIn.body.doc.model

\* C17: when the invoker's response body is a standalone JSON document
\* without event-stream markers and the model was not remapped, the body
\* returned is the upstream body, byte for byte, for an OAuth account
\* (whatever the Content-Type header says) as for an API-key account.
C17_JsonBodyUntouched ==
    PlainJsonAnswer
        => fOut.body = RespondTo(fIn.ext.resp.raw, fOut.sent[1].body.doc.model)

C17_Witness ==
    /\ PlainJsonAnswer
    /\ fIn.account.Type = AccountTypeOAuth
    /\ fIn.account.mapping = MapMToM2
    /\ fIn.body.doc.model = "m2"
    /\ fIn.ext.resp.sseHeader
    /\ fIn.ext.resp.raw = JsonBody(EchoDoc, FALSE)
    /\ fOut.body.doc.model = "m2"
    /\ ~fOut.body.rewritten

----------------------------------------------------------------------------
(* The degraded key mode, checked under SpecCodec.                          *)

\* C18: with no environment override, no TOTP key and no JWT secret, every
\* compactionKey call of the process yields the same ephemeral key, so a
\* token the process encrypted is decrypted by it at any later time to the
\* trimmed summary.
C18_EphemeralKeyStable ==
    (/\ cStage = "decrypted"
     /\ ServiceToken
     /\ ~cTampered
     /\ cEncCfg = CurCfg
     /\ KeySource(envKey, cfgTotp, cfgJwt) = "ephemeral")
        => /\ cDecKey = cEncKey
           /\ cDecErr = "none"
           /\ cDecOut = TrimSpace(cSummary)

----------------------------------------------------------------------------
(* Concurrent SetOpsStreamFault, checked under SpecFaultRace.               *)

\* C19: when two failure detectors call SetOpsStreamFault on the same
\* context concurrently, in every interleaving at most one of them writes
\* the fault, and the fault stored stays the one of that first writer.
C19_AtMostOneWriter ==
    /\ Len(rWrites) <= 1
    /\ rCtx.set => rCtx.fault = NormalizeFault(rArg[rWrites[1]])

\* C20: after every call of expandCompactionIntoInstructions that returned
\* no error, the input holds no item of type compaction or
\* compaction_summary, also when every compaction item decrypted to an
\* empty or whitespace-only summary.
C20_NoCompactionItemLeft ==
    (xCalls > 0 /\ xErr = "none" /\ xBody.input.kind = "list")
        => \A i \in 1..Len(xBody.input.items) :
                ~IsCompactionItem(xBody.input.items[i])

----------------------------------------------------------------------------
(* Claims about the stages of forwardForCompactJSON, checked under          *)
(* SpecForward.                                                             *)

\* the request had a compaction item in its input and was sent upstream
SentWithCompaction ==
    /\ fStage = "done"
    /\ fIn.body.valid
    /\ fIn.body.doc.input.kind = "list"
    /\ \E i \in 1..Len(fIn.body.doc.input.items) :
            IsCompactionItem(fIn.body.doc.input.items[i])
    /\ fOut.sent # <<>>

\* what expandCompactionIntoInstructions makes of the request's document
ExpandedRequest ==
    expandCompactionIntoInstructions(
        envKey, cfgTotp, cfgJwt,
        [isNil |-> FALSE, input |-> fIn.body.doc.input,
         instructions |-> fIn.body.doc.instructions]).body

\* C21: a request whose input holds a compaction item is never sent
\* upstream with that item still present: the body sent holds the input
\* without the compaction items, and the decrypted summary in its
\* instructions, as expandCompactionIntoInstructions leaves them.
C21_ExpandedBeforeSend ==
    SentWithCompaction
        => /\ \A i \in 1..Len(fOut.sent[1].body.doc.input.items) :
                ~IsCompactionItem(fOut.sent[1].body.doc.input.items[i])
           /\ fOut.sent[1].body.doc.input = ExpandedRequest.input
           /\ fOut.sent[1].body.doc.instructions = ExpandedRequest.instructions

\* the transport call of the invoker failed
TransportFailed ==
    /\ fStage = "done"
    /\ Len(fOut.sent) = 1
    /\ fIn.ext.transport.failed

\* C22: when the transport call fails, exactly one upstream-error event is
\* recorded, of kind request_error with upstream status 0 and the sanitized
\* message; the 502 "Upstream request failed" is written to the client
\* exactly when there is a client response and nothing was written to it
\* yet; an error and no ForwardResult or body is returned; and neither the
\* event, the log nor the returned error carries the unsanitized text.
C22_TransportFailure ==
    TransportFailed
        => /\ Len(fOut.events) = 1
           /\ fOut.events[1].Kind = "request_error"
           /\ fOut.events[1].UpstreamStatusCode = 0
           /\ fOut.events[1].Message.text = fIn.ext.transport.error.text
           /\ ~fOut.events[1].Message.credentials
           /\ fOut.writes =
                IF ~fIn.c.isNil /\ ~fIn.c.written
                THEN <<[status |-> 502, message |-> "Upstream request failed"]>>
                ELSE <<>>
           /\ fOut.err.kind = "transport"
           /\ ~fOut.err.message.credentials
           /\ fOut.result = NoResult
           /\ fOut.body = NoRespBody
           /\ \A i \in 1..Len(fOut.logs) : ~fOut.logs[i].credentials
           /\ fOut.hooks = 0

\* a transport error carrying credentials, on a response already begun
C22_Witness ==
    /\ TransportFailed
    /\ fIn.ext.transport.error.credentials
    /\ ~fIn.c.isNil
    /\ fIn.c.written
    /\ fOut.writes = <<>>
    /\ Len(fOut.events) = 1
    /\ Len(fOut.logs) = 1
    /\ fOut.err.kind = "transport"

\* the positions of a step in the trace of the call
StepsAt(step) == {i \in 1..Len(fOut.trace) : fOut.trace[i] = step}

\* the call returned where its trace ends, and nowhere before
ReturnedLast ==
    /\ fOut.trace # <<>>
    /\ StepsAt("return") = {Len(fOut.trace)}

\* C23: a call that returns an UpstreamFailoverError has appended the
\* failover event and then invoked handleFailoverSideEffects, once each,
\* before it returned; every failover-eligible status takes this path.
C23_HookBeforeFailover ==
    /\ (fStage = "done" /\ fOut.err.kind = "failover")
        => /\ fOut.hooks = 1
           /\ Len(fOut.events) = 1
           /\ fOut.events[1].Kind = "failover"
           /\ fOut.events[1].UpstreamStatusCode = fIn.ext.resp.status
           /\ ReturnedLast
           /\ \E e \in StepsAt("event"), h \in StepsAt("hook") :
                e < h /\ h < Len(fOut.trace)
           /\ Cardinality(StepsAt("hook")) = 1
    /\ (/\ GotResponse
        /\ (fIn.ext.resp.status < 200 \/ fIn.ext.resp.status >= 300)
        /\ fIn.ext.resp.failoverEligible)
        => fOut.err.kind = "failover"

C23_Witness ==
    /\ GotResponse
    /\ fIn.ext.resp.status = 503
    /\ fIn.ext.resp.failoverEligible
    /\ fOut.err.kind = "failover"
    /\ fOut.hooks = 1
    /\ fOut.trace = <<"normalize", "send", "event", "hook", "return">>

----------------------------------------------------------------------------
(* Claims about a request retried over accounts, checked under SpecRetry.   *)

\* C24: an attempt that ends in an UpstreamFailoverError wrote nothing to
\* the client response, so over the attempts of one request Compact and
\* the invoker write the response at most once, and only in the attempt
\* that ends the sequence.
C24_FailoverWritesNothing ==
    /\ \A i \in 1..Len(yLog) : yLog[i].kind = "failover" => yLog[i].writes = 0
    /\ Len(yWrites) <= 1
    /\ yWrites # <<>> =>
            /\ kStage = "done"
            /\ yLog[Len(yLog)].writes = 1
            /\ yLog[Len(yLog)].kind # "failover"

\* two accounts failed over, the third got a terminal upstream error
C24_Witness ==
    /\ Len(yLog) = 3
    /\ yLog[1].kind = "failover"
    /\ yLog[2].kind = "failover"
    /\ yLog[3].kind = "terminal"
    /\ yWrites = <<[status |-> 429, message |-> "upstream error"]>>
    /\ kStage = "done"

\* C25: within one call the stages come in a fixed order: the body is
\* normalized before the one transmission, which carries the normalized
\* body; the response is transformed (event-stream extraction, usage
\* parsing, model re-substitution) after the transmission and before the
\* call returns; and the upstream is called at most once.
C25_StageOrder ==
    fStage = "done"
        => /\ Len(fOut.sent) <= 1
           /\ Cardinality(StepsAt("send")) = Len(fOut.sent)
           /\ ReturnedLast
           /\ \A n \in StepsAt("normalize"), x \in StepsAt("send") : n < x
           /\ \A x \in StepsAt("send"), t \in StepsAt("transform") : x < t
           /\ \A t \in StepsAt("transform"), r \in StepsAt("return") : t < r
           /\ fOut.sent # <<>> =>
                /\ StepsAt("normalize") # {}
                /\ fOut.sent[1].body.doc.stream =
                        (IF fIn.account.Type = AccountTypeOAuth THEN "true" ELSE "false")
                /\ ~fIn.c.codexCLI => fOut.sent[1].body.doc.unsupported = {}
           /\ fOut.err.kind = "none" =>
                /\ StepsAt("send") # {}
                /\ StepsAt("transform") # {}
                /\ fOut.result.Usage = ParseUsage(fOut.body)

\* an event stream answered to a request whose model the account maps
C25_Witness ==
    /\ fStage = "done"
    /\ fIn.account.Type = AccountTypeOAuth
    /\ fIn.account.mapping["m"] = "m2"
    /\ fIn.body.doc.model = "m"
    /\ fIn.body.doc.stream = "absent"
    /\ fIn.ext.resp.raw = SseBody(<<DatedDoc, EchoDoc>>)
    /\ fOut.err.kind = "none"
    /\ fOut.trace = <<"normalize", "send", "transform", "return">>
    /\ fOut.sent[1].body.doc.stream = "true"
    /\ fOut.body.kind = "json"
    /\ fOut.result.Usage.InputTokens = 7

\* C26: the stream flag of the body sent upstream, and the streaming mode
\* the upstream request is built with, is true when the account is
\* OAuth-typed and false otherwise, whether the client gave true, false,
\* no stream value or one that is not a boolean.
C26_StreamForced ==
    (fStage = "done" /\ fOut.sent # <<>>)
        => /\ fIn.account.Type = AccountTypeOAuth =>
                /\ fOut.sent[1].body.doc.stream = "true"
                /\ fOut.sent[1].stream = TRUE
           /\ fIn.account.Type # AccountTypeOAuth =>
                /\ fOut.sent[1].body.doc.stream = "false"
                /\ fOut.sent[1].stream = FALSE

\* the client asked for a stream on an API-key account
C26_Witness ==
    /\ fStage = "done"
    /\ fIn.account.Type = AccountTypeAPIKey
    /\ fIn.body.doc.stream = "true"
    /\ fOut.sent # <<>>
    /\ fOut.sent[1].body.doc.stream = "false"
    /\ fOut.sent[1].stream = FALSE
    /\ fOut.sent[1].body.canon

\* the outcomes of a call that was sent
OutcomeSucceeded ==
    /\ fOut.err.kind = "none"
    /\ fIn.ext.resp.status >= 200 /\ fIn.ext.resp.status < 300
    /\ fIn.ext.resp.readable = fIn.ext.resp.size
OutcomeFailedRequest ==
    /\ fOut.err.kind = "transport"
    /\ fIn.ext.transport.failed
OutcomeFailedStatus ==
    /\ fOut.err.kind \in {"failover", "terminal"}
    /\ ~fIn.ext.transport.failed
    /\ (fIn.ext.resp.status < 200 \/ fIn.ext.resp.status >= 300)
\* a 2xx response whose body could not be read to its end
OutcomeFailedRead ==
    /\ fOut.err.kind = "read"
    /\ ~fIn.ext.transport.failed
    /\ fIn.ext.resp.status >= 200 /\ fIn.ext.resp.status < 300
    /\ fIn.ext.resp.readable < fIn.ext.resp.size
    /\ fOut.writes = <<>>
    /\ fOut.events = <<>>

\* result and body are returned exactly when no error is, and a call that
\* failed before transmission made no upstream call
ResultIffNoError ==
    /\ (fOut.err.kind = "none") <=> (fOut.result # NoResult)
    /\ (fOut.err.kind = "none") <=> (fOut.body # NoRespBody)
    /\ (fOut.sent = <<>>) <=> (fOut.err.kind \in {"parse", "token", "build"})
    /\ fOut.sent = <<>> => StepsAt("send") = {}

----------------------------------------------------------------------------
(* Claims about the request Compact hands upstream, checked under           *)
(* SpecCompact.                                                             *)

\* Compact sent a request upstream
CompactSent == kStage = "done" /\ kOut.forwarded /\ kOut.fwd.sent # <<>>

\* C27: within one request the outbound document is serialized at most
\* once, and not at all when no normalization step changed it: then the
\* bytes sent upstream are the bytes the client sent.
C27_SerializedOnceIfMutated ==
    CompactSent
        => /\ kOut.marshals <= 1
           /\ kOut.fwd.sent[1].body.doc = kIn.body.doc =>
                /\ kOut.marshals = 0
                /\ kOut.fwd.sent[1].body.canon = kIn.body.canon

----------------------------------------------------------------------------
(* Claims about the tracker read under a watchdog, checked under SpecWatch. *)

\* the watchdog's loads of bytesRead, in order
RECURSIVE BytesSeen(_)
BytesSeen(seen) ==
    IF seen = <<>> THEN <<>>
    ELSE IF Head(seen).cell = "bytesRead" THEN <<Head(seen)>> \o BytesSeen(Tail(seen))
    ELSE BytesSeen(Tail(seen))

\* C28: in every interleaving of the reading task and the watchdog, the
\* byte counter the watchdog loads never decreases and never exceeds the
\* bytes the wrapped reader has already returned; and once a Read that
\* returned n > 0 has completed, the counter and the timestamp, as stored
\* and as the watchdog loads them from then on, include that Read.
C28_WatchdogView ==
    /\ \A i \in 1..Len(BytesSeen(wSeen)) :
            /\ BytesSeen(wSeen)[i].value <= BytesSeen(wSeen)[i].inner
            /\ i > 1 => BytesSeen(wSeen)[i - 1].value <= BytesSeen(wSeen)[i].value
    /\ trk.bytesRead <= wInner
    /\ trk.hasBytes => trk.bytesRead >= SumReturned(tLog)
    /\ trk.hasLast => trk.lastReadAt >= LastPositiveAt(tLog)
    /\ \A i \in 1..Len(wSeen) :
            /\ (trk.hasBytes /\ wSeen[i].cell = "bytesRead")
                    => wSeen[i].value >= SumReturned(wSeen[i].completed)
            /\ (trk.hasLast /\ wSeen[i].cell = "lastReadAt")
                    => wSeen[i].value >= LastPositiveAt(wSeen[i].completed)
    /\ (wPc = "idle" /\ trk.hasBytes) => trk.bytesRead = SumReturned(tLog)
    /\ (wPc = "idle" /\ trk.hasLast) => trk.lastReadAt = LastPositiveAt(tLog)

\* the watchdog loaded the counter between the store and the add of the
\* second Read, and again after that Read returned
C28_Witness ==
    /\ trk.hasBytes
    /\ trk.hasLast
    /\ Len(tLog) = 2
    /\ wPc = "idle"
    /\ Len(wSeen) = 2
    /\ wSeen[1] = [cell |-> "bytesRead", value |-> 3, inner |-> 6,
                   completed |-> <<tLog[1]>>]
    /\ wSeen[2].cell = "bytesRead"
    /\ wSeen[2].value = 6
    /\ trk.lastReadAt = 2

----------------------------------------------------------------------------
(* Claims about the fault SetOpsStreamFault stores, checked under           *)
(* SpecFault.                                                               *)

\* a string that is lower-cased and has no space around it
IsLowerTrimmed(str) == str = TrimSpace(ToLower(str))

\* C30: every fault stored is normalized: Phase and Type are not empty
\* ("internal" and "stream_fault" when the caller gave none), Phase, Owner
\* and Source are lower-cased and trimmed, and StatusCode is at least 400
\* (499 when the caller gave none), so that the fault shows up in the
\* request-error lists.
C30_StoredFaultVisible ==
    ctxFault.set
        => /\ ctxFault.fault.Phase # <<>>
           /\ ctxFault.fault.Type # <<>>
           /\ TrimSpace(firstFault.fault.Phase) = <<>> => ctxFault.fault.Phase = PhaseInternal
           /\ TrimSpace(firstFault.fault.Type) = <<>> => ctxFault.fault.Type = TypeStreamFault
           /\ IsLowerTrimmed(ctxFault.fault.Phase)
           /\ IsLowerTrimmed(ctxFault.fault.Owner)
           /\ IsLowerTrimmed(ctxFault.fault.Source)
           /\ firstFault.fault.StatusCode <= 0 => ctxFault.fault.StatusCode = 499
           /\ ctxFault.fault.StatusCode >= 400

====
